---- MODULE Spec2Model ----
(***************************************************************************)
(* Model of the clip editing pipeline of clip.cafe: clip_edit_process.py   *)
(* (edit_clip), driven either by editor.py (clips already on disk) or by   *)
(* main.py (worker: sidecar, download, duration re-check, edit_clip).      *)
(*                                                                         *)
(* One clip is followed from the driver's worker to the result record.     *)
(* External calls (ffprobe, ffmpeg, Pillow, pysubs2, the download) are     *)
(* steps whose outcome the environment chooses.  Durations are counted in  *)
(* half seconds, so that a duration below, equal to and above an integer   *)
(* min_duration can all be measured.                                       *)
(***************************************************************************)
EXTENDS Integers, Sequences, FiniteSets, TLC

\* ---------------------------------------------------------------- bounds
MaxSrcW == 3
MaxSrcH == 3
MaxDurHalves == 3
MaxMinDuration == 1

\* ------------------------------------------------------ program constants
CanvasW == 1080
CanvasH == 1920
MinTargetWidth == 16
FallbackTop == 200
MinTitleY == 6

\* Optional values: None is the empty tuple, Some(x) a one-element tuple.
None == <<>>
Some(x) == <<x>>
IsSome(o) == o # <<>>
Val(o) == o[1]

Max(a, b) == IF a >= b THEN a ELSE b
Min(a, b) == IF a <= b THEN a ELSE b

\* Python's round() on the non-negative rational n/d (d > 0): to the nearest
\* integer, a tie going to the even neighbour.  The source rounds the float
\* product orig_h * (target_width / orig_w); on the sizes and widths used
\* here the float product and the exact quotient round to the same integer.
PyRound(n, d) ==
    LET q == n \div d
        r == n % d
    IN  IF 2 * r > d THEN q + 1
        ELSE IF 2 * r < d THEN q
        ELSE IF q % 2 = 0 THEN q ELSE q + 1

\* ------------------------------------------------------------ input sets
\* Source sizes (width, height) the size probe can report for the video.
NamedSizes ==
    { <<0, 1080>>, <<1920, 1080>>, <<1080, 1920>>, <<1080, 400>>,
      <<1080, 4000>>, <<1080, 881>>, <<1080, 1921>>, <<4000, 1>>,
      <<32, 1>>, <<32, 3>>, <<32, 5>>, <<1080, 1>>,
      <<1080, 1720>>, <<1080, 1320>> }
GridSizes == { <<w, h>> : w \in 1..MaxSrcW, h \in 0..MaxSrcH }
WideSizes == { Some(s) : s \in NamedSizes \cup GridSizes } \cup { None }
NarrowSizes == { None, Some(<<0, 1080>>), Some(<<1920, 1080>>), Some(<<1080, 4000>>) }

WideMargins == { -3, 0, 20, 532, 533, 540, 600 }
NarrowMargins == { 20 }
WideRadii == { 0, 100, 9999 }
NarrowRadii == { 0, 100 }
WideGaps == { 80, 200, 2000 }
NarrowGaps == { 80 }
WideLogoMargins == { -5, 16 }
NarrowLogoMargins == { 16 }

Durations == 0..MaxDurHalves
MinDurations == 0..MaxMinDuration

VARIABLES
    mode,            \* "editor" (editor.py) or "main" (main.py worker)
    args,            \* the arguments edit_clip is called with
    world,           \* what the environment holds: the video, Pillow, ...
    pc,              \* position of the worker / of edit_clip
    files,           \* files and directories that exist for the clip
    invocations,     \* render-engine invocations made so far, in order
    result,          \* the (ok, info) record returned for the clip
    dur, title_text, srt_path, fonts_dir,
    target_width, scaled_h, video_top_val, title_pos_y,
    use_ass, drawtext_filter, text_suffix,
    use_frame, use_mask, rect, radius_use,
    logo_ready_path,
    ass_title,       \* title event of the generated .ass track, if any
    tsize,           \* title font size: in the drawtext filter, in the track
    logo_img,        \* what logo_rgba.png was made from: "none", "file", "dummy"
    drv,             \* a driver's main(): entry point, position, effects
    batch,           \* the clips a driver queued and what became of them
    dl,              \* one download_stream call: body, .part and final file
    txt              \* one call of a text helper: function, input, output

vars == << mode, args, world, pc, files, invocations, result,
           dur, title_text, srt_path, fonts_dir,
           target_width, scaled_h, video_top_val, title_pos_y,
           use_ass, drawtext_filter, text_suffix,
           use_frame, use_mask, rect, radius_use, logo_ready_path,
           ass_title, tsize, logo_img, drv, batch, dl, txt >>

layoutVars == << target_width, scaled_h, video_top_val, title_pos_y >>
textVars == << use_ass, drawtext_filter, text_suffix, ass_title, tsize >>
cornerVars == << use_frame, use_mask, rect, radius_use >>
prepVars == << title_text, srt_path, fonts_dir >>
constVars == << mode, args, world >>
driverVars == << drv, batch, dl, txt >>

Pending == [ok |-> FALSE, error |-> "pending"]
Failure(e) == [ok |-> FALSE, error |-> e]
Success == [ok |-> TRUE, error |-> "none"]

\* ------------------------------------------------------------------ Init
\* A driver, a batch and a download that are not running.
DriverOff == [entry |-> "none", status |-> "off"]
BatchOff == [status |-> "off"]
DownloadOff == [pc |-> "off"]
TextOff == [fn |-> "none", pc |-> "off"]

\* No title has been sized yet.
NoTitleSize == [drawtext |-> <<>>, track |-> <<>>]

LogoPaths == {"none", "present", "missing"}

\* Encoders editor.py can select (--encoder and nvenc_available).
Encoders == {"libx264", "h264_nvenc"}

InitWith(margins, sizes, radii, gaps, logoMargins, flags, logoPaths, durations, minDurations, encoders, titleSizes) ==
    /\ mode \in {"editor", "main"}
    /\ args \in [ side_margin : margins,
                  corner_radius : radii,
                  title_margin_top : gaps,
                  logo_margin : logoMargins,
                  min_duration : minDurations,
                  title_enable : flags,
                  produce_feed : flags,
                  produce_reels : flags,
                  watermark : IF flags = BOOLEAN THEN {"none", "present", "missing"}
                                                 ELSE {"present"},
                  logo_size_ratio_pos : flags,
                  logo_path : logoPaths,
                  video_encoder : encoders,
                  title_size : titleSizes,
                  subtitle_size : {10},
                  nvenc_gpu : IF encoders = Encoders THEN {None, Some(0)} ELSE {None} ]
    \* main.py calls edit_clip without the logo arguments: the defaults apply
    \* (no logo file, logo_size_ratio 0.15)
    /\ mode = "main" => (args.logo_size_ratio_pos /\ args.logo_path = "none")
    \* ... and without the encoder arguments: libx264, no GPU index
    /\ mode = "main" => (args.video_encoder = "libx264" /\ args.nvenc_gpu = None)
    /\ world \in [ fileDur : durations,
                   srcSize : sizes,
                   PIL_AVAILABLE : BOOLEAN,
                   title_src : IF flags = BOOLEAN THEN {"blank", "text"} ELSE {"text"},
                   has_subs : BOOLEAN,
                   font_exists : flags ]
    /\ pc = IF mode = "editor" THEN "start" ELSE "worker"
    /\ files = IF mode = "editor" THEN {"meta", "mp4"} ELSE {}
    /\ invocations = <<>>
    /\ result = Pending
    /\ dur = None
    /\ title_text = None
    /\ srt_path = None
    /\ fonts_dir = None
    /\ target_width = 0
    /\ scaled_h = None
    /\ video_top_val = 0
    /\ title_pos_y = 0
    /\ use_ass = FALSE
    /\ drawtext_filter = None
    /\ text_suffix = <<>>
    /\ use_frame = FALSE
    /\ use_mask = FALSE
    /\ rect = None
    /\ radius_use = None
    /\ logo_ready_path = None
    /\ ass_title = None
    /\ tsize = NoTitleSize
    /\ logo_img = "none"
    /\ drv = DriverOff
    /\ batch = BatchOff
    /\ dl = DownloadOff
    /\ txt = TextOff

Init ==
    InitWith(NarrowMargins, NarrowSizes, NarrowRadii, NarrowGaps, NarrowLogoMargins,
             BOOLEAN, {"none"}, Durations, MinDurations, {"libx264"}, {44})

\* Wide geometry; the duration is one that passes the gate.
InitGeom ==
    InitWith(WideMargins, WideSizes, WideRadii, WideGaps, WideLogoMargins,
             {TRUE}, {"none"}, {MaxDurHalves}, {MaxMinDuration}, {"libx264"}, {44})

\* Every way the logo file and the encoder can be configured, the other flags
\* switched on.
InitLogo ==
    InitWith(NarrowMargins, NarrowSizes, NarrowRadii, NarrowGaps, NarrowLogoMargins,
             {TRUE}, LogoPaths, Durations, MinDurations, Encoders, {44})

\* Title sizes: 0 (none given: the subtitle size applies) and 44.
TitleSizes == {0, 44}

\* Every way the title can be configured and rendered, in every rendition; a
\* duration that passes the gate, a watermark file that is there if configured.
InitTitle ==
    /\ InitWith(NarrowMargins, NarrowSizes, NarrowRadii, NarrowGaps, NarrowLogoMargins,
                BOOLEAN, {"none"}, {MaxDurHalves}, {MaxMinDuration}, {"libx264"}, TitleSizes)
    /\ args.watermark # "missing"

\* --------------------------------------------------------------- returns
Return(r) ==
    /\ result' = r
    /\ pc' = "done"

\* ------------------------------------------------- main.py: worker(src)
\* Sidecar write and download; a failed download returns at once.
WorkerDownload ==
    /\ pc = "worker"
    /\ \E ok \in BOOLEAN :
         IF ok
         THEN /\ files' = files \cup {"meta", "mp4"}
              /\ pc' = "worker_probe"
              /\ result' = result
         ELSE /\ files' = files \cup {"meta"}
              /\ Return(Failure("download failed"))
    /\ UNCHANGED << constVars, driverVars, invocations, dur, prepVars, layoutVars,
                    textVars, cornerVars, logo_ready_path, logo_img >>

\* ffprobe_duration: the file's duration, or None when the probe fails.
ProbeOutcomes == { None, Some(world.fileDur) }

\* Variant: the minimum itself is rejected too.
TooShortInclusive(d, min_duration) == d <= 2 * min_duration

\* dur < min_duration, with dur in half seconds and min_duration in seconds.
TooShort(d, min_duration) == d < 2 * min_duration

\* Duration re-check after the download; the raw download is deleted when
\* the check fails.
WorkerProbe ==
    /\ pc = "worker_probe"
    /\ \E d \in ProbeOutcomes :
         IF d = None
         THEN /\ files' = files \ {"mp4"}
              /\ Return(Failure("ffprobe missing or failed"))
         ELSE IF TooShort(Val(d), args.min_duration)
         THEN /\ files' = files \ {"mp4"}
              /\ Return(Failure("duration_too_short"))
         ELSE /\ files' = files
              /\ pc' = "start"
              /\ result' = result
    /\ UNCHANGED << constVars, driverVars, invocations, dur, prepVars, layoutVars,
                    textVars, cornerVars, logo_ready_path, logo_img >>

\* ------------------------------------------------------------ edit_clip
\* Duration gate.
ProbeDuration ==
    /\ pc = "start"
    /\ \E d \in ProbeOutcomes :
         IF d = None
         THEN /\ Return(Failure("ffprobe missing or failed"))
              /\ dur' = dur
         ELSE IF TooShort(Val(d), args.min_duration)
         THEN /\ Return(Failure("duration_too_short"))
              /\ dur' = d
         ELSE /\ pc' = "prepare"
              /\ result' = result
              /\ dur' = d
    /\ UNCHANGED << constVars, driverVars, files, invocations, prepVars, layoutVars,
                    textVars, cornerVars, logo_ready_path, logo_img >>

\* Title text: None when disabled or when it strips to the empty string.
ResolveTitle(title_enable, title_src) ==
    IF title_enable /\ title_src = "text" THEN Some("text") ELSE None

\* Title resolution, caption file, output directory, font copy.
Prepare ==
    /\ pc = "prepare"
    /\ title_text' = ResolveTitle(args.title_enable, world.title_src)
    /\ srt_path' = IF world.has_subs THEN Some("srt") ELSE None
    /\ fonts_dir' = IF world.font_exists THEN Some("fonts") ELSE None
    /\ files' = files \cup {"outdir"}
                   \cup (IF world.has_subs THEN {"srt"} ELSE {})
                   \cup (IF world.font_exists THEN {"fonts"} ELSE {})
    /\ pc' = "layout"
    /\ UNCHANGED << constVars, driverVars, invocations, result, dur, layoutVars,
                    textVars, cornerVars, logo_ready_path, logo_img >>

\* Variant: the margin is subtracted once instead of on both sides.
TargetWidthOneSide(side_margin) == Max(MinTargetWidth, CanvasW - Max(0, side_margin))

\* Layout of the content region inside the 1080x1920 canvas.
TargetWidth(side_margin) == Max(MinTargetWidth, CanvasW - 2 * Max(0, side_margin))

\* Variant: a source whose size is not usable is taken to be square.
ScaledHAssumeSquare(orig_size, tw) ==
    IF orig_size = None THEN Some(tw)
    ELSE LET orig_w == Val(orig_size)[1]
             orig_h == Val(orig_size)[2]
         IN  IF orig_w = 0 THEN Some(tw)
             ELSE Some(PyRound(orig_h * tw, orig_w))

\* int(round(orig_h * (target_width / orig_w))); None when the size is
\* unknown or the division raises (orig_w = 0).
ScaledH(orig_size, tw) ==
    IF orig_size = None THEN None
    ELSE LET orig_w == Val(orig_size)[1]
             orig_h == Val(orig_size)[2]
         IN  IF orig_w = 0 THEN None
             ELSE Some(PyRound(orig_h * tw, orig_w))

\* "scaled_h and scaled_h > 0"
KnownPositive(sh) == IsSome(sh) /\ Val(sh) > 0

\* Variant: the half-pixel remainder goes to the bottom instead of the top.
VideoTopCeil(sh) ==
    IF KnownPositive(sh) THEN (CanvasH - Val(sh) + 1) \div 2 ELSE FallbackTop

VideoTop(sh) ==
    IF KnownPositive(sh) THEN (CanvasH - Val(sh)) \div 2 ELSE FallbackTop

\* Variant: the title position is not kept on the canvas.
TitlePosYNoFloor(top, gap) == top - gap

\* title_pos_y = max(6, video_top_val - gap)
TitlePosY(top, gap) == Max(MinTitleY, top - gap)

\* ffprobe_video_size and the layout computed from it.
Layout ==
    /\ pc = "layout"
    /\ LET tw == TargetWidth(args.side_margin)
           sh == ScaledH(world.srcSize, tw)
           top == VideoTop(sh)
       IN  /\ target_width' = tw
           /\ scaled_h' = sh
           /\ video_top_val' = top
           /\ title_pos_y' = TitlePosY(top, args.title_margin_top)
    /\ pc' = "ass"
    /\ UNCHANGED << constVars, driverVars, files, invocations, result, dur, prepVars,
                    textVars, cornerVars, logo_ready_path, logo_img >>

\* Variant: the subtitle filter is emitted before the drawtext title.
BuildTextSuffixSubsFirst(useAss, assExists, srt, srtExists, drawtext, fontsDir) ==
    (IF useAss /\ assExists
     THEN (IF IsSome(fontsDir) THEN <<"subtitles_ass_fontsdir">> ELSE <<"ass">>)
     ELSE IF IsSome(srt) /\ srtExists
     THEN (IF IsSome(fontsDir) THEN <<"subtitles_srt_fontsdir">> ELSE <<"subtitles_srt">>)
     ELSE <<>>)
    \o (IF IsSome(drawtext) THEN <<"drawtext">> ELSE <<>>)

\* build_text_suffix: the drawtext title (if any) first, then the subtitle
\* filter; the suffix is appended to the last chain of every graph.
BuildTextSuffix(useAss, assExists, srt, srtExists, drawtext, fontsDir) ==
    (IF IsSome(drawtext) THEN <<"drawtext">> ELSE <<>>)
    \o (IF useAss /\ assExists
        THEN (IF IsSome(fontsDir) THEN <<"subtitles_ass_fontsdir">> ELSE <<"ass">>)
        ELSE IF IsSome(srt) /\ srtExists
        THEN (IF IsSome(fontsDir) THEN <<"subtitles_srt_fontsdir">> ELSE <<"subtitles_srt">>)
        ELSE <<>>)

\* "title_size if title_size else subtitle_size" (0 stands for None or 0)
TitleSize(title_size, subtitle_size) ==
    IF title_size # 0 THEN title_size ELSE subtitle_size

\* tsize of the drawtext fallback, written out again at its own call site.
DrawtextSize(title_size, subtitle_size) ==
    IF title_size # 0 THEN title_size ELSE subtitle_size

\* Variant: the drawtext title is added whether or not the track is used.
DrawtextFilterAlways(useAss, title, y) ==
    IF IsSome(title) THEN Some(y) ELSE None

\* drawtext fallback for the title: only when the track is not used.
DrawtextFilter(useAss, title, y) ==
    IF (~useAss) /\ IsSome(title) THEN Some(y) ELSE None

\* Title event that generate_ass_from_srt inserts as the first event of the
\* track: the override tag \pos(540, int(title_pos_y)); none without a title.
AssTitleEvent(title, y) ==
    IF IsSome(title) THEN Some(<< 540, y >>) ELSE None

\* generate_ass_from_srt (pysubs2 may be missing or fail), then the drawtext
\* fallback and the text suffix.
GenerateAss ==
    /\ pc = "ass"
    /\ \E ass_ok \in (IF IsSome(srt_path) THEN BOOLEAN ELSE {FALSE}) :
         LET dt == DrawtextFilter(ass_ok, title_text, title_pos_y)
             fs == IF ass_ok THEN files \cup {"ass"} ELSE files
         IN  /\ use_ass' = ass_ok
             /\ ass_title' = IF ass_ok THEN AssTitleEvent(title_text, title_pos_y)
                                       ELSE None
             /\ files' = fs
             /\ drawtext_filter' = dt
             /\ tsize' = [drawtext |-> IF IsSome(dt)
                                       THEN Some(DrawtextSize(args.title_size,
                                                              args.subtitle_size))
                                       ELSE None,
                          track |-> IF ass_ok /\ IsSome(title_text)
                                    THEN Some(TitleSize(args.title_size,
                                                        args.subtitle_size))
                                    ELSE None]
             /\ text_suffix' = BuildTextSuffix(ass_ok, "ass" \in fs, srt_path,
                                               "srt" \in fs, dt, fonts_dir)
    /\ pc' = "frame"
    /\ UNCHANGED << constVars, driverVars, invocations, result, dur, prepVars,
                    layoutVars, cornerVars, logo_ready_path, logo_img >>

\* Variant: the bottom edge is not clamped to the canvas height.
FrameRectOpenBottom(tw, top, sh) ==
    LET video_left == (CanvasW - tw) \div 2
    IN  << Max(0, Min(CanvasW - 1, video_left)),
           Max(0, Min(CanvasH - 1, top)),
           Max(1, Min(CanvasW, video_left + tw)),
           Max(1, top + sh) >>

\* Content rectangle clamped into the canvas (frame path).
FrameRect(tw, top, sh) ==
    LET video_left == (CanvasW - tw) \div 2
    IN  << Max(0, Min(CanvasW - 1, video_left)),
           Max(0, Min(CanvasH - 1, top)),
           Max(1, Min(CanvasW, video_left + tw)),
           Max(1, Min(CanvasH, top + sh)) >>

\* Content rectangle clamped into the canvas (mask path).
MaskRect(tw, top, sh) ==
    LET video_left == (CanvasW - tw) \div 2
        x0 == video_left
        y0 == top
        x1 == video_left + tw
        y1 == top + sh
    IN  << Max(0, Min(CanvasW - 1, x0)),
           Max(0, Min(CanvasH - 1, y0)),
           Max(1, Min(CanvasW, x1)),
           Max(1, Min(CanvasH, y1)) >>

MaxRadius(r) == Min((r[3] - r[1]) \div 2, (r[4] - r[2]) \div 2)

\* Variant: the requested radius is not limited by the rectangle.
RadiusUseUnlimited(corner_radius, max_radius) ==
    IF max_radius > 0 THEN Max(0, corner_radius) ELSE 0

\* radius_use = max(0, min(corner_radius, max_radius)) if max_radius > 0 else 0
RadiusUse(corner_radius, max_radius) ==
    IF max_radius > 0 THEN Max(0, Min(corner_radius, max_radius)) ELSE 0

\* Rectangle drawn by the raster generators: inclusive corners, clamped again.
DrawnRect(r) ==
    << Max(0, Min(CanvasW - 1, r[1])),
       Max(0, Min(CanvasH - 1, r[2])),
       Max(0, Min(CanvasW - 1, r[3] - 1)),
       Max(0, Min(CanvasH - 1, r[4] - 1)) >>

\* "corner_radius and corner_radius > 0 and PIL_AVAILABLE and scaled_h and scaled_h > 0"
CornersWanted ==
    /\ args.corner_radius > 0
    /\ world.PIL_AVAILABLE
    /\ KnownPositive(scaled_h)

\* Fast rounded frame (window) path: generate_rounded_frame_window may fail.
GenerateFrame ==
    /\ pc = "frame"
    /\ IF CornersWanted
       THEN LET r == FrameRect(target_width, video_top_val, Val(scaled_h))
                ru == RadiusUse(args.corner_radius, MaxRadius(r))
            IN  /\ rect' = r
                /\ radius_use' = Some(ru)
                /\ \E ok_frame \in (IF ru > 0 THEN BOOLEAN ELSE {FALSE}) :
                     /\ use_frame' = ok_frame
                     /\ files' = IF ok_frame THEN files \cup {"frame"} ELSE files
       ELSE UNCHANGED << rect, radius_use, use_frame, files >>
    /\ pc' = "mask"
    /\ UNCHANGED << constVars, driverVars, invocations, result, dur, prepVars,
                    layoutVars, textVars, use_mask, logo_ready_path, logo_img >>

\* Variant: the mask is generated whether or not the frame was produced.
MaskWantedAlways == CornersWanted

\* "if not use_frame:" and then the same condition as for the frame.
MaskWanted == (~use_frame) /\ CornersWanted

\* Alpha mask, only if the frame is not used: generate_rounded_mask may fail.
GenerateMask ==
    /\ pc = "mask"
    /\ IF MaskWanted
       THEN LET r == MaskRect(target_width, video_top_val, Val(scaled_h))
                ru == RadiusUse(args.corner_radius, MaxRadius(r))
            IN  /\ rect' = r
                /\ radius_use' = Some(ru)
                /\ \E ok_mask \in (IF ru > 0 THEN BOOLEAN ELSE {FALSE}) :
                     /\ use_mask' = ok_mask
                     /\ files' = IF ok_mask THEN files \cup {"mask"} ELSE files
       ELSE UNCHANGED << rect, radius_use, use_mask, files >>
    /\ pc' = "logo"
    /\ UNCHANGED << constVars, driverVars, invocations, result, dur, prepVars,
                    layoutVars, textVars, use_frame, logo_ready_path, logo_img >>

\* Variant: a configured logo file is opened without the existence check.
LogoSourceUnchecked(logo_path) ==
    IF logo_path # "none" THEN "file" ELSE "dummy"

\* prepare_logo: "if logo_src and logo_src.exists()" the file is opened, else
\* (no file configured, or the configured file is missing) a dummy logo is
\* drawn.
LogoSource(logo_path) ==
    IF logo_path = "present" THEN "file" ELSE "dummy"

\* prepare_logo: the logo bitmap, or None (ratio not positive, Pillow missing,
\* or any failure while decoding, scaling or saving).
PrepareLogo ==
    /\ pc = "logo"
    /\ LET src == LogoSource(args.logo_path)
       IN  \E produced \in (IF args.logo_size_ratio_pos /\ world.PIL_AVAILABLE
                                /\ src # "none"
                             THEN BOOLEAN ELSE {FALSE}) :
             /\ logo_ready_path' = IF produced THEN Some("logo") ELSE None
             /\ logo_img' = IF produced THEN src ELSE "none"
             /\ files' = IF produced THEN files \cup {"logo"} ELSE files
    /\ pc' = "post"
    /\ UNCHANGED << constVars, driverVars, invocations, result, dur, prepVars,
                    layoutVars, textVars, cornerVars >>

\* ------------------------------------------------------ render commands
\* A filter graph is a sequence of chains; a chain has input labels, a
\* sequence of filters and an output label.
Chain(ins, f, out) == [ins |-> ins, f |-> f, out |-> out]

\* scale=<w>:-2, pad to at least the canvas, crop to the canvas
BaseTransform == << "scale", "pad", "crop" >>

\* Variant: the audio map is mandatory.
FinalMapsMandatoryAudio == << "[final]", "0:a" >>

FinalMaps == << "[final]", "0:a?" >>

\* _build_vencoder_args: the encoder arguments spliced into every command.
BuildVencoderArgs(video_encoder, nvenc_gpu) ==
    IF video_encoder = "h264_nvenc"
    THEN << "-c:v", "h264_nvenc", "-preset", "nvenc_preset", "-tune", "hq",
            "-rc", "vbr", "-cq", "nvenc_cq", "-b:v", "0", "-profile:v", "high" >>
         \o (IF IsSome(nvenc_gpu) THEN << "-gpu", "nvenc_gpu" >> ELSE <<>>)
    ELSE << "-c:v", "libx264", "-preset", "veryfast", "-crf", "23",
            "-profile:v", "high" >>

Cmd(stage, inputs, form, graph, maps, out, scale_w, crop, logo_xy, venc) ==
    [ stage |-> stage, inputs |-> inputs, form |-> form, graph |-> graph,
      maps |-> maps, out |-> out, scale_w |-> scale_w, crop |-> crop,
      logo_xy |-> logo_xy, venc |-> venc ]

\* Variant: the logo is anchored to the canvas's top-left corner.
LogoXYCanvas(tw, top, logo_margin) ==
    << Max(0, logo_margin), Max(0, logo_margin) >>

\* Overlay coordinates of the logo, relative to the video area.
LogoXY(tw, top, logo_margin) ==
    << (CanvasW - tw) \div 2 + Max(0, logo_margin), top + Max(0, logo_margin) >>

\* 1) Instagram 1080x1920
CmdInsta(frameOn, maskOn, logoOn, suffix, tw, xy, venc) ==
    LET vertical == << CanvasW, CanvasH >>
    IN
    IF frameOn
    THEN IF logoOn
         THEN Cmd("post", << "video", "frame", "logo" >>, "filter_complex",
                  << Chain(<< "0:v" >>, BaseTransform, "vcore"),
                     Chain(<< "vcore", "1:v" >>, << "overlay_frame" >>, "withframe"),
                     Chain(<< "withframe", "2:v" >>, << "overlay_logo" >> \o suffix, "final") >>,
                  FinalMaps, "post", tw, vertical, xy, venc)
         ELSE Cmd("post", << "video", "frame" >>, "filter_complex",
                  << Chain(<< "0:v" >>, BaseTransform, "vcore"),
                     Chain(<< "vcore", "1:v" >>, << "overlay_frame" >> \o suffix, "final") >>,
                  FinalMaps, "post", tw, vertical, <<>>, venc)
    ELSE IF maskOn
    THEN IF logoOn
         THEN Cmd("post", << "video", "mask", "logo" >>, "filter_complex",
                  << Chain(<< "0:v" >>, BaseTransform \o << "format_rgba" >>, "vcore"),
                     Chain(<< "1:v" >>, << "scale_mask", "format_rgba", "alphaextract" >>, "ma"),
                     Chain(<< "vcore", "ma" >>, << "alphamerge" >>, "va"),
                     Chain(<<>>, << "color_bg" >>, "bg"),
                     Chain(<< "bg", "va" >>, << "overlay_bg" >>, "masked"),
                     Chain(<< "masked", "2:v" >>, << "overlay_logo" >> \o suffix, "final") >>,
                  FinalMaps, "post", tw, vertical, xy, venc)
         ELSE Cmd("post", << "video", "mask" >>, "filter_complex",
                  << Chain(<< "0:v" >>, BaseTransform \o << "format_rgba" >>, "vcore"),
                     Chain(<< "1:v" >>, << "scale_mask", "format_rgba", "alphaextract" >>, "ma"),
                     Chain(<< "vcore", "ma" >>, << "alphamerge" >>, "va"),
                     Chain(<<>>, << "color_bg" >>, "bg"),
                     Chain(<< "bg", "va" >>, << "overlay_bg" >> \o suffix, "final") >>,
                  FinalMaps, "post", tw, vertical, <<>>, venc)
    ELSE IF logoOn
         THEN Cmd("post", << "video", "logo" >>, "filter_complex",
                  << Chain(<< "0:v" >>, BaseTransform, "vcore"),
                     Chain(<< "vcore", "1:v" >>, << "overlay_logo" >> \o suffix, "final") >>,
                  FinalMaps, "post", tw, vertical, xy, venc)
         ELSE Cmd("post", << "video" >>, "vf",
                  << Chain(<<>>, BaseTransform \o suffix, "") >>,
                  <<>>, "post", tw, vertical, <<>>, venc)

\* Variant: the feed rendition overlays the logo like the vertical ones.
CmdFeedWithLogo(suffix, venc) ==
    Cmd("feed", << "video", "logo" >>, "filter_complex",
        << Chain(<< "0:v" >>, BaseTransform, "vcore"),
           Chain(<< "vcore", "1:v" >>, << "overlay_logo" >> \o suffix, "final") >>,
        FinalMaps, "feed", CanvasW, << CanvasW, CanvasW >>, << 0, 0 >>, venc)

\* Variant: the text suffix is applied before the scale/pad/crop chain.
CmdFeedSuffixFirst(suffix, venc) ==
    Cmd("feed", << "video" >>, "vf",
        << Chain(<<>>, suffix \o BaseTransform, "") >>,
        <<>>, "feed", CanvasW, << CanvasW, CanvasW >>, <<>>, venc)

\* 2) Feed 1080x1080: single chain, no frame, mask or logo
CmdFeed(suffix, venc) ==
    Cmd("feed", << "video" >>, "vf",
        << Chain(<<>>, BaseTransform \o suffix, "") >>,
        <<>>, "feed", CanvasW, << CanvasW, CanvasW >>, <<>>, venc)

\* Variant: reels is always the plain single-chain rendition.
CmdReelsPlain(frameOn, maskOn, logoOn, suffix, tw, xy, venc) ==
    Cmd("reels", << "video" >>, "vf",
        << Chain(<<>>, BaseTransform \o suffix, "") >>,
        <<>>, "reels", tw, << CanvasW, CanvasH >>, <<>>, venc)

\* 3) Reels 1080x1920
CmdReels(frameOn, maskOn, logoOn, suffix, tw, xy, venc) ==
    LET vertical == << CanvasW, CanvasH >>
    IN
    IF frameOn
    THEN IF logoOn
         THEN Cmd("reels", << "video", "frame", "logo" >>, "filter_complex",
                  << Chain(<< "0:v" >>, BaseTransform, "vcore"),
                     Chain(<< "vcore", "1:v" >>, << "overlay_frame" >>, "withframe"),
                     Chain(<< "withframe", "2:v" >>, << "overlay_logo" >> \o suffix, "final") >>,
                  FinalMaps, "reels", tw, vertical, xy, venc)
         ELSE Cmd("reels", << "video", "frame" >>, "filter_complex",
                  << Chain(<< "0:v" >>, BaseTransform, "vcore"),
                     Chain(<< "vcore", "1:v" >>, << "overlay_frame" >> \o suffix, "final") >>,
                  FinalMaps, "reels", tw, vertical, <<>>, venc)
    ELSE IF maskOn
    THEN IF logoOn
         THEN Cmd("reels", << "video", "mask", "logo" >>, "filter_complex",
                  << Chain(<< "0:v" >>, BaseTransform \o << "format_rgba" >>, "vcore"),
                     Chain(<< "1:v" >>, << "scale_mask", "format_rgba", "alphaextract" >>, "ma"),
                     Chain(<< "vcore", "ma" >>, << "alphamerge" >>, "va"),
                     Chain(<<>>, << "color_bg" >>, "bg"),
                     Chain(<< "bg", "va" >>, << "overlay_bg" >>, "masked"),
                     Chain(<< "masked", "2:v" >>, << "overlay_logo" >> \o suffix, "final") >>,
                  FinalMaps, "reels", tw, vertical, xy, venc)
         ELSE Cmd("reels", << "video", "mask" >>, "filter_complex",
                  << Chain(<< "0:v" >>, BaseTransform \o << "format_rgba" >>, "vcore"),
                     Chain(<< "1:v" >>, << "scale_mask", "format_rgba", "alphaextract" >>, "ma"),
                     Chain(<< "vcore", "ma" >>, << "alphamerge" >>, "va"),
                     Chain(<<>>, << "color_bg" >>, "bg"),
                     Chain(<< "bg", "va" >>, << "overlay_bg" >> \o suffix, "final") >>,
                  FinalMaps, "reels", tw, vertical, <<>>, venc)
    ELSE IF logoOn
         THEN Cmd("reels", << "video", "logo" >>, "filter_complex",
                  << Chain(<< "0:v" >>, BaseTransform, "vcore"),
                     Chain(<< "vcore", "1:v" >>, << "overlay_logo" >> \o suffix, "final") >>,
                  FinalMaps, "reels", tw, vertical, xy, venc)
         ELSE Cmd("reels", << "video" >>, "vf",
                  << Chain(<<>>, BaseTransform \o suffix, "") >>,
                  <<>>, "reels", tw, vertical, <<>>, venc)

\* Watermark pass on the reels output: overlay=10:10, no -map
CmdWm(venc) ==
    Cmd("watermark", << "reels", "watermark" >>, "filter_complex",
        << Chain(<<>>, << "overlay_wm" >>, "") >>,
        <<>>, "reels_wm", 0, <<>>, <<>>, venc)

\* venc_args, built once per clip from the encoder arguments.
VencArgs == BuildVencoderArgs(args.video_encoder, args.nvenc_gpu)

FrameOn == use_frame /\ "frame" \in files
MaskOn == use_mask /\ "mask" \in files
\* Variant: the existence check looks at the frame bitmap.
LogoOnFrameFile == IsSome(logo_ready_path) /\ "frame" \in files

LogoOn == IsSome(logo_ready_path) /\ "logo" \in files

\* Variant: a failed invocation removes the renditions made so far.
InvokeWithCleanup(cmd, ok) ==
    /\ invocations' = Append(invocations, [cmd |-> cmd, ok |-> ok])
    /\ files' = IF ok THEN files \cup {cmd.out}
                      ELSE files \ {"post", "feed", "reels", "reels_wm"}

\* run_ffmpeg: one blocking call, no retry; the invocation is recorded.
Invoke(cmd, ok) ==
    /\ invocations' = Append(invocations, [cmd |-> cmd, ok |-> ok])
    /\ files' = IF ok THEN files \cup {cmd.out} ELSE files

\* Variant: without reels the watermark pass is still run when configured.
AfterFeedWatermarkAlone ==
    IF args.produce_reels
    THEN pc' = "reels" /\ result' = result
    ELSE IF args.watermark # "none"
    THEN pc' = "wm" /\ result' = result
    ELSE Return(Success)

\* What follows a successful feed stage (or a post stage without feed).
AfterFeed ==
    IF args.produce_reels
    THEN pc' = "reels" /\ result' = result
    ELSE Return(Success)

\* Variant: the feed stage is entered whether requested or not.
AfterPostAlwaysFeed == pc' = "feed" /\ result' = result

AfterPost ==
    IF args.produce_feed
    THEN pc' = "feed" /\ result' = result
    ELSE AfterFeed

\* Variant: a missing watermark file is skipped silently.
AfterReelsSkipMissing ==
    IF args.watermark = "present"
    THEN pc' = "wm" /\ result' = result
    ELSE Return(Success)

\* What follows a successful reels stage: the watermark file check.
AfterReels ==
    IF args.watermark # "none"
    THEN IF args.watermark = "missing"
         THEN Return(Failure("watermark not found"))
         ELSE pc' = "wm" /\ result' = result
    ELSE Return(Success)

RenderPost ==
    /\ pc = "post"
    /\ \E ok \in BOOLEAN :
         /\ Invoke(CmdInsta(FrameOn, MaskOn, LogoOn, text_suffix, target_width,
                            LogoXY(target_width, video_top_val, args.logo_margin),
                            VencArgs), ok)
         /\ IF ok THEN AfterPost
                  ELSE Return(Failure("ffmpeg instagram_post failed"))
    /\ UNCHANGED << constVars, driverVars, dur, prepVars, layoutVars, textVars,
                    cornerVars, logo_ready_path, logo_img >>

RenderFeed ==
    /\ pc = "feed"
    /\ \E ok \in BOOLEAN :
         /\ Invoke(CmdFeed(text_suffix, VencArgs), ok)
         /\ IF ok THEN AfterFeed
                  ELSE Return(Failure("ffmpeg feed failed"))
    /\ UNCHANGED << constVars, driverVars, dur, prepVars, layoutVars, textVars,
                    cornerVars, logo_ready_path, logo_img >>

RenderReels ==
    /\ pc = "reels"
    /\ \E ok \in BOOLEAN :
         /\ Invoke(CmdReels(FrameOn, MaskOn, LogoOn, text_suffix, target_width,
                            LogoXY(target_width, video_top_val, args.logo_margin),
                            VencArgs), ok)
         /\ IF ok THEN AfterReels
                  ELSE Return(Failure("ffmpeg reels failed"))
    /\ UNCHANGED << constVars, driverVars, dur, prepVars, layoutVars, textVars,
                    cornerVars, logo_ready_path, logo_img >>

RenderWatermark ==
    /\ pc = "wm"
    /\ \E ok \in BOOLEAN :
         /\ Invoke(CmdWm(VencArgs), ok)
         /\ IF ok THEN Return(Success)
                  ELSE Return(Failure("ffmpeg watermark failed"))
    /\ UNCHANGED << constVars, driverVars, dur, prepVars, layoutVars, textVars,
                    cornerVars, logo_ready_path, logo_img >>

Next ==
    \/ WorkerDownload
    \/ WorkerProbe
    \/ ProbeDuration
    \/ Prepare
    \/ Layout
    \/ GenerateAss
    \/ GenerateFrame
    \/ GenerateMask
    \/ PrepareLogo
    \/ RenderPost
    \/ RenderFeed
    \/ RenderReels
    \/ RenderWatermark

Spec == Init /\ [][Next]_vars

SpecGeom == InitGeom /\ [][Next]_vars

SpecLogo == InitLogo /\ [][Next]_vars

SpecTitle == InitTitle /\ [][Next]_vars

\* =============================================================== drivers
\* The four entry points: editor.py, main.py, download_and_process.py and
\* download_tom_hardy.py.  A driver resolves its tools, creates directories,
\* finds clips, queues them on a thread pool and collects the outcomes.
MaxHits == 2
MaxConcurrent == 2
MaxTotal == 2

Entries == {"editor", "main", "download_and_process", "download_tom_hardy"}

\* A clip that takes no part in the specification at hand.
ClipOff ==
    /\ mode = "none" /\ args = <<>> /\ world = <<>>
    /\ pc = "off" /\ files = {} /\ invocations = <<>> /\ result = Pending
    /\ dur = None /\ title_text = None /\ srt_path = None /\ fonts_dir = None
    /\ target_width = 0 /\ scaled_h = None /\ video_top_val = 0 /\ title_pos_y = 0
    /\ use_ass = FALSE /\ drawtext_filter = None /\ text_suffix = <<>>
    /\ use_frame = FALSE /\ use_mask = FALSE /\ rect = None /\ radius_use = None
    /\ logo_ready_path = None /\ ass_title = None /\ logo_img = "none"
    /\ tsize = NoTitleSize

clipVars == << mode, args, world, pc, files, invocations, result,
               dur, title_text, srt_path, fonts_dir,
               target_width, scaled_h, video_top_val, title_pos_y,
               use_ass, drawtext_filter, text_suffix,
               use_frame, use_mask, rect, radius_use, logo_ready_path,
               ass_title, tsize, logo_img >>

\* ---- safe_filename_from_slug, on names written as sequences of characters
AlnumChars == {"a", "b", "c"}
KeptChars == AlnumChars \cup {"-", "_", "."}
StripChars == {"-", "_"}

\* .replace("/", "_").replace(" ", "_")
ReplaceSeparators(name) ==
    [k \in 1..Len(name) |-> IF name[k] \in {"/", " "} THEN "_" ELSE name[k]]

\* "".join(c for c in name if c.isalnum() or c in "-_.")
RECURSIVE KeepSafe(_)
KeepSafe(name) ==
    IF name = <<>> THEN <<>>
    ELSE (IF Head(name) \in KeptChars THEN << Head(name) >> ELSE <<>>)
         \o KeepSafe(Tail(name))

\* .strip("-_")
RECURSIVE StripLeft(_)
StripLeft(name) ==
    IF name # <<>> /\ Head(name) \in StripChars THEN StripLeft(Tail(name)) ELSE name

RECURSIVE StripRight(_)
StripRight(name) ==
    IF name # <<>> /\ name[Len(name)] \in StripChars
    THEN StripRight(SubSeq(name, 1, Len(name) - 1))
    ELSE name

\* f"clip_{int(time.time())}", within one second
FallbackName == << "c", "l", "i", "p", "_", "0" >>

safe_filename_from_slug(slug) ==
    LET name == StripRight(StripLeft(KeepSafe(ReplaceSeparators(slug))))
    IN  IF name = <<>> THEN FallbackName ELSE name

\* ---- what a driver finds
\* Raw slugs (or titles) of catalog records and of metadata sidecars.
RawSlugs == { << "a", " ", "b" >>, << "a", "_", "b" >>, << "c", "!" >> }

\* Catalog records: slug, whether the metadata duration is below the minimum,
\* whether a download URL is present.
SearchHits == [name : RawSlugs, meta_short : BOOLEAN, has_dl : BOOLEAN]
\* Files of the downloads directory: the slug in the sidecar (if there is one).
DiskClips == [name : RawSlugs, has_meta : BOOLEAN]

\* Lists of at most MaxHits items with pairwise distinct slugs.
ListsOf(S) ==
    { l \in UNION { [1..n -> S] : n \in 0..MaxHits } :
        \A i, j \in 1..Len(l) : i # j => l[i].name # l[j].name }

\* main.py / download_and_process.py: "candidates" loop; the limit is tested
\* after the append.
RECURSIVE CandidatesOf(_, _, _)
CandidatesOf(hits, acc, max_total) ==
    IF hits = <<>> THEN acc
    ELSE LET h == Head(hits)
         IN  IF h.meta_short \/ ~h.has_dl
             THEN CandidatesOf(Tail(hits), acc, max_total)
             ELSE IF Len(acc) + 1 >= max_total
                  THEN Append(acc, h)
                  ELSE CandidatesOf(Tail(hits), Append(acc, h), max_total)

\* download_tom_hardy.py: the limit is tested before each hit and after each
\* submission.
RECURSIVE QueuedOf(_, _, _)
QueuedOf(hits, acc, max_total) ==
    IF hits = <<>> \/ Len(acc) >= max_total THEN acc
    ELSE LET h == Head(hits)
         IN  IF h.meta_short \/ ~h.has_dl
             THEN QueuedOf(Tail(hits), acc, max_total)
             ELSE QueuedOf(Tail(hits), Append(acc, h), max_total)

\* editor.py: "pairs" loop; the limit is tested after every file.
RECURSIVE PairsOf(_, _, _)
PairsOf(clips, acc, max_total) ==
    IF clips = <<>> THEN acc
    ELSE LET acc2 == IF Head(clips).has_meta THEN Append(acc, Head(clips)) ELSE acc
         IN  IF Len(acc2) >= max_total THEN acc2
             ELSE PairsOf(Tail(clips), acc2, max_total)

\* ---- startup
\* What each main() does before it queues clips, in source order.
StartupEditor == << "ffprobe", "ffmpeg", "nvenc", "mkdir", "scan" >>
StartupMain == << "api_key", "ffprobe", "ffmpeg", "mkdir", "search" >>
StartupDownloadAndProcess == << "api_key", "ffprobe", "ffmpeg", "mkdir", "search" >>
StartupTomHardy == << "api_key", "mkdir", "ffprobe", "search" >>

StartupSteps(entry) ==
    CASE entry = "editor" -> StartupEditor
      [] entry = "main" -> StartupMain
      [] entry = "download_and_process" -> StartupDownloadAndProcess
      [] entry = "download_tom_hardy" -> StartupTomHardy

\* The external tools an entry point resolves and uses.
RequiredTools(entry) ==
    IF entry = "download_tom_hardy" THEN {"ffprobe"} ELSE {"ffprobe", "ffmpeg"}

InitDriver ==
    /\ ClipOff
    /\ dl = DownloadOff
    /\ txt = TextOff
    /\ drv \in [ entry : Entries,
                 api_key : BOOLEAN,      \* the API key is set
                 ffprobe : BOOLEAN,      \* find_ffprobe finds the tool
                 ffmpeg : BOOLEAN,       \* find_ffmpeg finds the tool
                 step : {1},
                 effects : {{}},
                 status : {"starting"} ]
    /\ batch \in [ status : {"idle"},
                   max_concurrent : 1..MaxConcurrent,
                   max_total : 0..MaxTotal,
                   queue : {<<>>},
                   st : {<<>>},
                   wrote : {<<>>},
                   collected : {{}},
                   outcomes : {<<>>},
                   results : {<<>>},
                   summary : {None} ]

AtStep(name) ==
    /\ drv.status = "starting"
    /\ StartupSteps(drv.entry)[drv.step] = name

\* The step is done; what it did is recorded.
Advance(effect) ==
    drv' = [drv EXCEPT !.step = @ + 1, !.effects = @ \cup effect]

\* sys.exit / return from main()
Exit(code, effect) ==
    drv' = [drv EXCEPT !.status = code, !.effects = @ \cup effect]

CheckApiKey ==
    /\ AtStep("api_key")
    /\ IF drv.api_key THEN Advance({}) ELSE Exit("exit_error", {})
    /\ UNCHANGED << clipVars, batch, dl, txt >>

ResolveFfprobe ==
    /\ AtStep("ffprobe")
    /\ IF drv.ffprobe THEN Advance({}) ELSE Exit("exit_error", {})
    /\ UNCHANGED << clipVars, batch, dl, txt >>

ResolveFfmpeg ==
    /\ AtStep("ffmpeg")
    /\ IF drv.ffmpeg THEN Advance({}) ELSE Exit("exit_error", {})
    /\ UNCHANGED << clipVars, batch, dl, txt >>

\* editor.py: nvenc_available runs "ffmpeg -encoders"
CheckNvenc ==
    /\ AtStep("nvenc")
    /\ Advance({"engine"})
    /\ UNCHANGED << clipVars, batch, dl, txt >>

\* downloads_dir.mkdir / outputs_dir.mkdir / outdir.mkdir
MakeDirs ==
    /\ AtStep("mkdir")
    /\ Advance({"mkdir"})
    /\ UNCHANGED << clipVars, batch, dl, txt >>

\* ---- queueing
Path(dir, slug, ext) == << dir, slug, ext >>

\* safe_filename_from_slug of each catalog slug, computed once.
SafeNames == [s \in RawSlugs |-> safe_filename_from_slug(s)]

SidecarPath(item) == Path("downloads", SafeNames[item.name], "json")

\* The clips are submitted to the pool.  download_tom_hardy.py has written the
\* sidecar of each clip in the main thread by then.
StartBatch(q) ==
    batch' = [batch EXCEPT
                !.status = "pool",
                !.queue = q,
                !.st = [i \in 1..Len(q) |-> "queued"],
                !.wrote = [i \in 1..Len(q) |->
                             IF drv.entry = "download_tom_hardy"
                             THEN {SidecarPath(q[i])} ELSE {}]]

\* do_search, then the candidate loop and the submission of the clips.
SearchCatalog ==
    /\ AtStep("search")
    /\ \/ /\ Exit("exit_error", {"search"})         \* search error
          /\ batch' = batch
       \/ \E hits \in ListsOf(SearchHits) :
            LET q == IF drv.entry = "download_tom_hardy"
                     THEN QueuedOf(hits, <<>>, batch.max_total)
                     ELSE CandidatesOf(hits, <<>>, batch.max_total)
            IN  IF q = <<>>
                THEN /\ Exit("exit_ok", {"search"})
                     /\ batch' = batch
                ELSE /\ Exit("pool", {"search"})
                     /\ StartBatch(q)
    /\ UNCHANGED << clipVars, dl, txt >>

\* editor.py: the mp4 files of the downloads directory that have a sidecar.
ScanDownloads ==
    /\ AtStep("scan")
    /\ \E clips \in ListsOf(DiskClips) :
         LET q == PairsOf(clips, <<>>, batch.max_total)
         IN  IF q = <<>>
             THEN /\ Exit("exit_ok", {})
                  /\ batch' = batch
             ELSE /\ Exit("pool", {})
                  /\ StartBatch(q)
    /\ UNCHANGED << clipVars, dl, txt >>

\* ---- the thread pool
WorkerSteps == {"sidecar", "download", "probe", "edit"}
Returned == {"ok", "failed"}
Finished == Returned \cup {"raised"}

\* Variant: a pool thread is not given back when its clip is finished.
RunningClipsNeverFreed ==
    { i \in 1..Len(batch.queue) : batch.st[i] \in WorkerSteps \cup Finished }

RunningClips == { i \in 1..Len(batch.queue) : batch.st[i] \in WorkerSteps }

\* First thing the submitted callable does.
FirstStep(entry) ==
    CASE entry = "editor" -> "edit"
      [] entry = "download_tom_hardy" -> "download"
      [] OTHER -> "sidecar"

\* A free pool thread takes the next queued clip.
PoolStart ==
    /\ batch.status = "pool"
    /\ Cardinality(RunningClips) < batch.max_concurrent
    /\ \E i \in 1..Len(batch.queue) :
         /\ batch.st[i] = "queued"
         /\ \A j \in 1..(i - 1) : batch.st[j] # "queued"
         /\ batch' = [batch EXCEPT !.st[i] = FirstStep(drv.entry)]
    /\ drv' = [drv EXCEPT !.effects = @ \cup {"worker"}]
    /\ UNCHANGED << clipVars, dl, txt >>

\* Paths edit_clip (or process_hit) writes for a slug: the caption files
\* next to the download and the clip's output directory with all it holds.
EditPaths(slug) ==
    { Path("downloads", slug, "srt"), Path("downloads", slug, "ass"),
      Path("outputs", slug, "dir") }

\* One step of a worker: sidecar, download (.part, then the final file),
\* duration re-check (the download is deleted when it fails), edit_clip.
PoolStep ==
    /\ batch.status = "pool"
    /\ \E i \in RunningClips :
         LET slug == SafeNames[batch.queue[i].name]
             step == batch.st[i]
         IN  \/ /\ step = "sidecar"
                /\ batch' = [batch EXCEPT !.st[i] = "download",
                                          !.wrote[i] = @ \cup {Path("downloads", slug, "json")}]
                /\ drv' = drv
             \/ /\ step = "download"
                /\ \E ok \in BOOLEAN :
                     batch' = [batch EXCEPT
                                 !.st[i] = IF ok THEN "probe" ELSE "failed",
                                 !.wrote[i] = @ \cup {Path("downloads", slug, "part")}
                                                \cup (IF ok THEN {Path("downloads", slug, "mp4")}
                                                            ELSE {})]
                /\ drv' = [drv EXCEPT !.effects = @ \cup {"download"}]
             \/ /\ step = "probe"
                /\ \E ok \in BOOLEAN :
                     batch' = [batch EXCEPT
                                 !.st[i] = IF ~ok THEN "failed"
                                           ELSE IF drv.entry = "download_tom_hardy" THEN "ok"
                                           ELSE "edit",
                                 !.wrote[i] = @ \cup {Path("downloads", slug, "mp4")}]
                /\ drv' = [drv EXCEPT !.effects = @ \cup {"engine"}]
             \/ /\ step = "edit"
                /\ \E r \in Finished :
                     batch' = [batch EXCEPT !.st[i] = r,
                                            !.wrote[i] = @ \cup EditPaths(slug)]
                /\ drv' = [drv EXCEPT !.effects = @ \cup {"engine"}]
    /\ UNCHANGED << clipVars, dl, txt >>

\* What the collecting loop prints for a finished future.
OutcomeOf(st) ==
    CASE st = "ok" -> "OK"
      [] st = "failed" -> "FAILED"
      [] st = "raised" -> "exception"

\* The collecting loop takes a finished future: as_completed in editor.py,
\* main.py and download_and_process.py, submission order in
\* download_tom_hardy.py.  Only a returned result is appended to results.
Collect ==
    /\ batch.status = "pool"
    /\ \E i \in 1..Len(batch.queue) :
         /\ batch.st[i] \in Finished
         /\ i \notin batch.collected
         /\ drv.entry = "download_tom_hardy" => \A j \in 1..(i - 1) : j \in batch.collected
         /\ batch' = [batch EXCEPT
                        !.collected = @ \cup {i},
                        !.outcomes = Append(@, << i, OutcomeOf(batch.st[i]) >>),
                        !.results = IF batch.st[i] \in Returned
                                    THEN Append(@, batch.st[i] = "ok") ELSE @]
    /\ UNCHANGED << clipVars, drv, dl, txt >>

\* Variant: every queued clip that did not succeed is counted as failed.
SummaryOfQueued(results, queued) ==
    LET succ == Cardinality({ k \in 1..Len(results) : results[k] })
    IN  [success |-> succ, failed |-> queued - succ]

\* succ = sum(1 for r in results if r[0]); fail = len(results) - succ
SummaryOf(results, queued) ==
    LET succ == Cardinality({ k \in 1..Len(results) : results[k] })
    IN  [success |-> succ, failed |-> Len(results) - succ]

\* download_tom_hardy.py prints "Successes: <success_count>/<len(futures)>"
SummaryOfDownloads(results, queued) ==
    [success |-> Cardinality({ k \in 1..Len(results) : results[k] }), queued |-> queued]

\* All futures are collected: the summary line, and main() returns.
Summarize ==
    /\ batch.status = "pool"
    /\ batch.collected = 1..Len(batch.queue)
    /\ batch' = [batch EXCEPT
                   !.status = "finished",
                   !.summary = Some(IF drv.entry = "download_tom_hardy"
                                    THEN SummaryOfDownloads(batch.results, Len(batch.queue))
                                    ELSE SummaryOf(batch.results, Len(batch.queue)))]
    /\ drv' = [drv EXCEPT !.status = "exit_ok"]
    /\ UNCHANGED << clipVars, dl, txt >>

NextDriver ==
    \/ CheckApiKey
    \/ ResolveFfprobe
    \/ ResolveFfmpeg
    \/ CheckNvenc
    \/ MakeDirs
    \/ SearchCatalog
    \/ ScanDownloads
    \/ PoolStart
    \/ PoolStep
    \/ Collect
    \/ Summarize

SpecDriver == InitDriver /\ [][NextDriver]_vars

\* Scheduling: a free pool thread takes a queued clip, every external call of
\* a worker (download, ffprobe, ffmpeg) returns, and the main thread, which
\* only waits for finished futures, goes on when one is finished.
DriverFairness ==
    /\ WF_vars(PoolStart)
    /\ WF_vars(PoolStep)
    /\ WF_vars(Collect)
    /\ WF_vars(Summarize)

SpecDriverFair == SpecDriver /\ DriverFairness

\* ====================================================== download_stream
\* One call of download_stream(dl_url, out_path) for a destination that does
\* not exist yet: the body arrives in chunks (an empty chunk is skipped), is
\* written to <out_path>.part and the .part file is moved to out_path.  Any
\* exception leads to the handler, which removes the .part file.
MaxChunks == 3

\* Bodies a server can send: the sizes of the chunks iter_content yields.
Bodies == UNION { [1..n -> 0..1] : n \in 0..MaxChunks }

RECURSIVE BodySize(_)
BodySize(body) == IF body = <<>> THEN 0 ELSE Head(body) + BodySize(Tail(body))

InitDownload ==
    /\ ClipOff
    /\ drv = DriverOff
    /\ batch = BatchOff
    /\ txt = TextOff
    /\ dl \in [ pc : {"request"},
                body : Bodies,
                next : {1},          \* index of the next chunk to arrive
                part : {None},       \* bytes in the .part file, if it exists
                final : {None},      \* bytes in the final file, if it exists
                ret : {None} ]       \* the ok flag returned

\* An exception is raised: control goes to the except block.
Raise == dl' = [dl EXCEPT !.pc = "except"]

\* requests.get(..., stream=True) and raise_for_status()
DlRequest ==
    /\ dl.pc = "request"
    /\ \/ dl' = [dl EXCEPT !.pc = "open"]
       \/ Raise
    /\ UNCHANGED << clipVars, drv, batch, txt >>

\* open(tmp_file, "wb")
DlOpen ==
    /\ dl.pc = "open"
    /\ \/ dl' = [dl EXCEPT !.pc = "stream", !.part = Some(0)]
       \/ Raise
    /\ UNCHANGED << clipVars, drv, batch, txt >>

\* One iteration of "for chunk in r.iter_content(...)": the chunk is written
\* if it is not empty; the connection or the write may fail.
DlChunk ==
    /\ dl.pc = "stream"
    /\ dl.next <= Len(dl.body)
    /\ \/ dl' = [dl EXCEPT !.next = @ + 1,
                           !.part = Some(Val(@) + dl.body[dl.next])]
       \/ Raise
    /\ UNCHANGED << clipVars, drv, batch, txt >>

\* The body is exhausted: the file and the response are closed.
DlClose ==
    /\ dl.pc = "stream"
    /\ dl.next > Len(dl.body)
    /\ dl' = [dl EXCEPT !.pc = "move"]
    /\ UNCHANGED << clipVars, drv, batch, txt >>

\* shutil.move(tmp_file, out_path): a rename within one directory
DlMove ==
    /\ dl.pc = "move"
    /\ \/ dl' = [dl EXCEPT !.pc = "done", !.final = dl.part, !.part = None,
                           !.ret = Some(TRUE)]
       \/ Raise
    /\ UNCHANGED << clipVars, drv, batch, txt >>

\* Variant: the handler leaves the .part file where it is.
PartAfterCleanupKept(part) == part

\* "if tmp_file.exists(): tmp_file.unlink()"
PartAfterCleanup(part) == None

\* except Exception: remove the .part file, return (False, str(e))
DlExcept ==
    /\ dl.pc = "except"
    /\ dl' = [dl EXCEPT !.pc = "done", !.part = PartAfterCleanup(dl.part),
                        !.ret = Some(FALSE)]
    /\ UNCHANGED << clipVars, drv, batch, txt >>

NextDownload ==
    \/ DlRequest
    \/ DlOpen
    \/ DlChunk
    \/ DlClose
    \/ DlMove
    \/ DlExcept

SpecDownload == InitDownload /\ [][NextDownload]_vars

\* ========================================================== text helpers
\* ffmpeg_escape_text, safe_filename_from_slug, parse_subs_field and
\* write_srt, each called once on an input.  A string is the sequence of its
\* characters; "\\" is the one-character string holding a backslash.
MaxTextLen == 3

\* All strings over the alphabet of at most n characters.
StringsOver(alphabet, n) == UNION { [1..k -> alphabet] : k \in 0..n }

\* str.replace(old, new) for a one-character old: every occurrence, left to
\* right, in one pass.
RECURSIVE Replace(_, _, _)
Replace(s, old, new) ==
    IF s = <<>> THEN <<>>
    ELSE (IF Head(s) = old THEN new ELSE << Head(s) >>) \o Replace(Tail(s), old, new)

\* Variant: the backslash is doubled last, after the other escapes.
ffmpeg_escape_text_backslash_last(s) ==
    Replace(Replace(Replace(Replace(s, "'", << "\\", "'" >>),
                            ":", << "\\", ":" >>),
                    "%", << "%", "%" >>),
            "\\", << "\\", "\\" >>)

\* txt.replace("\\", "\\\\").replace("'", "\\'").replace(":", "\\:").replace("%", "%%")
\* ("if not txt: return ''" gives the same result for the empty string)
ffmpeg_escape_text(s) ==
    IF s = <<>> THEN <<>>
    ELSE Replace(Replace(Replace(Replace(s, "\\", << "\\", "\\" >>),
                                 "'", << "\\", "'" >>),
                         ":", << "\\", ":" >>),
                 "%", << "%", "%" >>)

\* Titles: every string of the characters that are escaped and one that is
\* not, and the title It's 50%: done.
EscapeAlphabet == { "\\", "'", ":", "%", "a" }
ExampleTitle == << "I", "t", "'", "s", " ", "5", "0", "%", ":", " ", "d", "o", "n", "e" >>
Titles == StringsOver(EscapeAlphabet, MaxTextLen) \cup { ExampleTitle }

\* Slugs: an alphanumeric character, the three other kept characters, the
\* two separators that are replaced and a character that is dropped.
SlugAlphabet == { "a", ".", "-", "_", "/", " ", "!" }
Slugs == StringsOver(SlugAlphabet, MaxTextLen)

\* ---- parse_subs_field and write_srt
\* A caption payload is the sequence of its entries in insertion order; an
\* entry has its key (a string) and its TimeStart in seconds, the caption text
\* is named after the key and TimeEnd is left to its default.
Digits == { "0", "1", "2" }
SubKeys == { << "1" >>, << "2" >>, << "1", "0" >>, << "0", "1" >>, << "x" >> }
SubEntries == [key : SubKeys, start : {0, 1}]
Payloads ==
    { p \in StringsOver(SubEntries, MaxTextLen) :
        \A i, j \in 1..Len(p) : i # j => p[i].key # p[j].key }

\* str(k).isdigit()
IsDigit(k) == k # <<>> /\ \A i \in 1..Len(k) : k[i] \in Digits

\* int(k) for a digit string
RECURSIVE IntOf(_)
IntOf(k) ==
    IF k = <<>> THEN 0
    ELSE 10 * IntOf(SubSeq(k, 1, Len(k) - 1))
         + (CASE k[Len(k)] = "0" -> 0 [] k[Len(k)] = "1" -> 1 [] k[Len(k)] = "2" -> 2)

\* Position of a string in the order of Python's str comparison (code points:
\* '0' < '1' < '2' < 'x', a proper prefix first), for keys of up to 2 characters.
CharRank(c) == CASE c = "0" -> 1 [] c = "1" -> 2 [] c = "2" -> 3 [] c = "x" -> 4
StrRank(k) ==
    IF k = <<>> THEN 0
    ELSE 5 * CharRank(k[1]) + (IF Len(k) > 1 THEN CharRank(k[2]) ELSE 0)

\* sorted(): stable, ascending in the rank
RECURSIVE InsertByRank(_, _, _)
InsertByRank(x, s, rank) ==
    IF s = <<>> THEN << x >>
    ELSE IF rank[x] < rank[Head(s)] THEN << x >> \o s
    ELSE << Head(s) >> \o InsertByRank(x, Tail(s), rank)

RECURSIVE SortByRank(_, _)
SortByRank(s, rank) ==
    IF s = <<>> THEN <<>>
    ELSE InsertByRank(s[Len(s)], SortByRank(SubSeq(s, 1, Len(s) - 1), rank), rank)

\* Variant: the keys are always compared as strings.
SortedKeysAsStrings(keys) ==
    SortByRank(keys, [k \in SubKeys |-> StrRank(k)])

\* sorted(data.keys(), key=lambda k: int(k) if str(k).isdigit() else k);
\* comparing an int with a str raises, and the keys then keep their
\* insertion order.
SortedKeys(keys) ==
    IF \A i \in 1..Len(keys) : IsDigit(keys[i])
    THEN SortByRank(keys, [k \in SubKeys |-> IF IsDigit(k) THEN IntOf(k) ELSE 0])
    ELSE IF \A i \in 1..Len(keys) : ~IsDigit(keys[i])
    THEN SortByRank(keys, [k \in SubKeys |-> StrRank(k)])
    ELSE keys

\* parse_subs_field: one (start, end, text) item per key, in key order.
parse_subs_field(payload) ==
    LET keys == SortedKeys([i \in 1..Len(payload) |-> payload[i].key])
        EntryOf(k) == CHOOSE e \in { payload[i] : i \in 1..Len(payload) } : e.key = k
    IN  [i \in 1..Len(keys) |->
            [start |-> EntryOf(keys[i]).start,
             end |-> EntryOf(keys[i]).start + 2,
             text |-> keys[i]]]

\* decimal_ms for whole seconds
decimal_ms(v) == v * 1000

\* write_srt: the blocks of the file: number, time line, text.
write_srt(items) ==
    [i \in 1..Len(items) |->
        [index |-> i,
         start_ms |-> decimal_ms(items[i].start),
         end_ms |-> decimal_ms(items[i].end),
         text |-> items[i].text]]

InitText ==
    /\ ClipOff
    /\ drv = DriverOff
    /\ batch = BatchOff
    /\ dl = DownloadOff
    /\ \/ txt \in [fn : {"escape"}, pc : {"call"}, input : Titles, output : {<<>>}]
       \/ txt \in [fn : {"slug"}, pc : {"call"}, input : Slugs, output : {<<>>}]
       \/ txt \in [fn : {"subs"}, pc : {"call"}, input : Payloads, output : {<<>>},
                    srt : {<<>>}]

\* edit_clip: txt = ffmpeg_escape_text(title_text)
EscapeTitle ==
    /\ txt.fn = "escape" /\ txt.pc = "call"
    /\ txt' = [txt EXCEPT !.output = ffmpeg_escape_text(txt.input), !.pc = "done"]
    /\ UNCHANGED << clipVars, drv, batch, dl >>

\* edit_clip: slug = safe_filename_from_slug(slug_raw)
SanitizeSlug ==
    /\ txt.fn = "slug" /\ txt.pc = "call"
    /\ txt' = [txt EXCEPT !.output = safe_filename_from_slug(txt.input), !.pc = "done"]
    /\ UNCHANGED << clipVars, drv, batch, dl >>

\* edit_clip: subs = parse_subs_field(subs_field) if subs_field else []
ParseSubs ==
    /\ txt.fn = "subs" /\ txt.pc = "call"
    /\ txt' = [txt EXCEPT !.output = parse_subs_field(txt.input), !.pc = "parsed"]
    /\ UNCHANGED << clipVars, drv, batch, dl >>

\* edit_clip: "if subs: write_srt(subs, srt_path)"
WriteSrt ==
    /\ txt.fn = "subs" /\ txt.pc = "parsed"
    /\ txt.output # <<>>
    /\ txt' = [txt EXCEPT !.srt = write_srt(txt.output), !.pc = "done"]
    /\ UNCHANGED << clipVars, drv, batch, dl >>

NextText ==
    \/ EscapeTitle
    \/ SanitizeSlug
    \/ ParseSubs
    \/ WriteSrt

SpecText == InitText /\ [][NextText]_vars

\* ================================================================ claims
\* Filters of a command in the order they appear in the graph text.
RECURSIVE Flatten(_)
Flatten(g) == IF g = <<>> THEN <<>> ELSE Head(g).f \o Flatten(Tail(g))

StagesOf(c) == Flatten(c.graph)
HasStage(c, f) == \E chain \in { c.graph[k] : k \in 1..Len(c.graph) } :
                     \E k \in 1..Len(chain.f) : chain.f[k] = f
HasInput(c, x) == \E k \in 1..Len(c.inputs) : c.inputs[k] = x
Invoked(stage) == \E i \in 1..Len(invocations) : invocations[i].cmd.stage = stage
CmdsOf(stage) == { invocations[i].cmd : i \in { j \in 1..Len(invocations) :
                                                invocations[j].cmd.stage = stage } }
AllCmds == { invocations[i].cmd : i \in 1..Len(invocations) }

\* The layout of the clip has been computed.
LayoutDone ==
    \/ pc \in {"ass", "frame", "mask", "logo", "post", "feed", "reels", "wm"}
    \/ pc = "done" /\ Len(invocations) > 0

MaskStages == {"alphaextract", "alphamerge", "color_bg", "overlay_bg"}
RoundingAndLogoStages == {"overlay_frame", "alphamerge", "overlay_bg", "overlay_logo"}
SubtitleFilters == {"ass", "subtitles_ass_fontsdir", "subtitles_srt", "subtitles_srt_fontsdir"}

\* C1: the post command has exactly the graph shape the decision table gives
\* for (frame in use, mask in use, logo produced): frame shape when a frame is
\* in use, else mask shape when a mask is in use, else no corner stage; a logo
\* overlay iff a logo was produced; the -vf form iff none of the three.
C1_ShapeSelection ==
    \A c \in CmdsOf("post") :
        LET st == StagesOf(c)
            logo == IsSome(logo_ready_path)
        IN  /\ SubSeq(st, 1, 3) = << "scale", "pad", "crop" >>
            /\ use_frame =>
                 /\ st[4] = "overlay_frame"
                 /\ HasInput(c, "frame") /\ ~HasInput(c, "mask")
                 /\ \A f \in MaskStages \cup {"format_rgba"} : ~HasStage(c, f)
            /\ (~use_frame /\ use_mask) =>
                 /\ Len(st) >= 10
                 /\ SubSeq(st, 4, 10) = << "format_rgba", "scale_mask", "format_rgba",
                                           "alphaextract", "alphamerge", "color_bg",
                                           "overlay_bg" >>
                 /\ HasInput(c, "mask") /\ ~HasInput(c, "frame")
                 /\ ~HasStage(c, "overlay_frame")
            /\ (~use_frame /\ ~use_mask) =>
                 /\ \A f \in MaskStages \cup {"overlay_frame", "format_rgba"} : ~HasStage(c, f)
                 /\ ~HasInput(c, "frame") /\ ~HasInput(c, "mask")
            /\ HasStage(c, "overlay_logo") <=> logo
            /\ HasInput(c, "logo") <=> logo
            /\ (c.form = "vf") <=> (~use_frame /\ ~use_mask /\ ~logo)
            /\ c.form \in {"vf", "filter_complex"}
            /\ Len(c.inputs) = 1 + (IF use_frame \/ use_mask THEN 1 ELSE 0)
                                 + (IF logo THEN 1 ELSE 0)

\* C1 witness: a post command of the mask shape with a logo has been issued.
C1_Witness ==
    /\ Invoked("post")
    /\ ~use_frame /\ use_mask /\ IsSome(logo_ready_path)

\* C2 as claimed: where drawtext is used it is the stage right after the base
\* scale/pad/crop chain and precedes every rounded-corner and logo stage.
C2_DrawtextBeforeCorners ==
    \A c \in AllCmds :
        LET st == StagesOf(c)
        IN  \A k \in 1..Len(st) :
              st[k] = "drawtext" =>
                 /\ k = 4
                 /\ \A j \in 1..Len(st) : st[j] \in RoundingAndLogoStages => k < j

\* C2 amended: where drawtext is used it is the first filter of the text
\* suffix: it directly follows the last compositing stage of the graph (frame
\* overlay, background overlay of the mask, or logo overlay), hence comes after
\* every rounded-corner and logo stage; it directly follows the base chain
\* exactly in the single-chain form; only the subtitle filter may follow it.
C2_DrawtextAfterCorners ==
    \A c \in AllCmds :
        LET st == StagesOf(c)
        IN  \A k \in 1..Len(st) :
              st[k] = "drawtext" =>
                 /\ k > 3
                 /\ \A j \in 1..Len(st) : st[j] \in RoundingAndLogoStages => j < k
                 /\ st[k - 1] \in {"crop", "overlay_frame", "overlay_bg", "overlay_logo"}
                 /\ (st[k - 1] = "crop") <=> (c.form = "vf")
                 /\ \A j \in (k + 1)..Len(st) : st[j] \in SubtitleFilters
                 /\ \E m \in 1..Len(c.graph[Len(c.graph)].f) :
                        c.graph[Len(c.graph)].f[m] = "drawtext"

\* C2 witness: a post command with the drawtext title on top of a frame.
C2_Witness ==
    /\ \E c \in CmdsOf("post") : HasStage(c, "drawtext") /\ HasStage(c, "overlay_frame")
    /\ IsSome(drawtext_filter)

\* C3 as claimed: every command with more than one input maps the final video
\* label and the optional source audio, the watermark pass included.
C3_AllMultiInputMapped ==
    \A c \in AllCmds :
        Len(c.inputs) > 1 => c.maps = << "[final]", "0:a?" >>

\* C3 amended: every post and reels command with more than one input maps the
\* final video label, which its last chain produces, and the optional source
\* audio 0:a?; the single-input forms and the watermark pass carry no -map.
C3_PostReelsMapped ==
    \A c \in AllCmds :
        /\ (c.stage \in {"post", "reels"} /\ Len(c.inputs) > 1) =>
               /\ c.maps = << "[final]", "0:a?" >>
               /\ c.form = "filter_complex"
               /\ c.graph[Len(c.graph)].out = "final"
        /\ (c.stage = "watermark" \/ Len(c.inputs) = 1) => c.maps = <<>>

\* C3 witness: a multi-input reels command has been issued.
C3_Witness ==
    \E c \in CmdsOf("reels") : Len(c.inputs) = 3

StageRank(stage) ==
    CASE stage = "post" -> 1
      [] stage = "feed" -> 2
      [] stage = "reels" -> 3
      [] stage = "watermark" -> 4

\* Errors with which a clip is turned away before the duration gate is passed.
GateErrors == {"download failed", "ffprobe missing or failed", "duration_too_short"}

\* C4: the render invocations of a clip are made in the order post, feed,
\* reels, watermark, each at most once; post comes first and is always made
\* once the gate is passed; feed and reels only if requested and never
\* skipped when requested; the watermark pass is last and follows reels.
C4_StageOrder ==
    LET n == Len(invocations)
        stage(i) == invocations[i].cmd.stage
    IN  /\ \A i, j \in 1..n : i < j => StageRank(stage(i)) < StageRank(stage(j))
        /\ n > 0 => stage(1) = "post"
        /\ Invoked("feed") => args.produce_feed
        /\ Invoked("reels") => args.produce_reels /\ (args.produce_feed => Invoked("feed"))
        /\ Invoked("watermark") =>
              /\ stage(n) = "watermark"
              /\ n > 1 /\ stage(n - 1) = "reels"
              /\ args.watermark = "present"
        /\ pc \in {"feed", "reels", "wm"} => Invoked("post")
        /\ (pc = "done" /\ result.error \notin GateErrors) => Invoked("post")

\* C4 witness: all four stages have been invoked for one clip.
C4_Witness ==
    /\ Len(invocations) = 4
    /\ invocations[4].cmd.stage = "watermark"

ErrorOfStage(stage) ==
    CASE stage = "post" -> "ffmpeg instagram_post failed"
      [] stage = "feed" -> "ffmpeg feed failed"
      [] stage = "reels" -> "ffmpeg reels failed"
      [] stage = "watermark" -> "ffmpeg watermark failed"

\* C5: a failed stage is the last invocation of the clip and the clip returns
\* the failure record naming that stage; a missing watermark file fails the
\* clip without a watermark invocation; success is returned only when every
\* requested stage was invoked and succeeded.
C5_FailureShortCircuits ==
    LET n == Len(invocations)
    IN  /\ \A i \in 1..n :
              ~invocations[i].ok =>
                 /\ i = n
                 /\ pc = "done"
                 /\ result = [ok |-> FALSE, error |-> ErrorOfStage(invocations[i].cmd.stage)]
        /\ (pc = "done" /\ result.error = "watermark not found") =>
              /\ ~result.ok
              /\ ~Invoked("watermark")
              /\ n > 0 /\ invocations[n].cmd.stage = "reels" /\ invocations[n].ok
        /\ (pc = "done" /\ result.ok) =>
              /\ \A i \in 1..n : invocations[i].ok
              /\ Invoked("post")
              /\ args.produce_feed => Invoked("feed")
              /\ args.produce_reels => Invoked("reels")
              /\ (args.produce_reels /\ args.watermark # "none") => Invoked("watermark")
        /\ pc = "done" => result.error # "pending" /\ (result.ok <=> result.error = "none")
        /\ pc # "done" => result.error = "pending"

\* C5 witness: the feed stage failed after a successful post while reels and
\* a watermark were requested, and the clip has returned.
C5_Witness ==
    /\ pc = "done"
    /\ Len(invocations) = 2
    /\ invocations[1].ok /\ ~invocations[2].ok
    /\ args.produce_reels /\ args.watermark = "present"

C6_EqualAccepted ==
    /\ IsSome(dur) /\ Val(dur) = 2 * args.min_duration /\ args.min_duration > 0
    /\ Invoked("post")

\* C7: the clamped content rectangle handed to the raster generators lies in
\* the canvas and is not empty, also when the scaled video is taller than the
\* canvas; the inclusive rectangle the generators draw is well-formed too.
C7_RectInsideCanvas ==
    rect # None =>
        /\ 0 <= rect[1] /\ rect[1] < rect[3] /\ rect[3] <= 1080
        /\ 0 <= rect[2] /\ rect[2] < rect[4] /\ rect[4] <= 1920
        /\ LET d == DrawnRect(rect)
           IN  /\ d[1] = rect[1] /\ d[2] = rect[2]
               /\ d[3] = rect[3] - 1 /\ d[4] = rect[4] - 1

\* C7 witness: a rectangle was computed for a video taller than the canvas.
C7_Witness ==
    /\ rect # None
    /\ IsSome(scaled_h) /\ Val(scaled_h) > 1920
    /\ use_frame

\* C8: the effective radius lies between 0 and half the shorter side of the
\* clamped rectangle; a larger request is reduced to exactly that maximum
\* (9999 on a 1080 x 400 rectangle gives 200).
C8_RadiusBounded ==
    IsSome(radius_use) =>
        LET w == rect[3] - rect[1]
            h == rect[4] - rect[2]
            m == IF w <= h THEN w \div 2 ELSE h \div 2
            ru == Val(radius_use)
        IN  /\ 0 <= ru /\ ru <= m
            /\ args.corner_radius >= m => ru = m
            /\ args.corner_radius <= m => ru = args.corner_radius
            /\ (w = 1080 /\ h = 400 /\ args.corner_radius = 9999) => ru = 200

\* C8 witness: radius 9999 was requested on a 1080 x 400 rectangle.
C8_Witness ==
    /\ IsSome(radius_use)
    /\ rect = << 0, 760, 1080, 1160 >>
    /\ args.corner_radius = 9999
    /\ Val(radius_use) = 200

\* C9 as claimed: for 0 <= side_margin with 2*side_margin < 1080 the content
\* width is 1080 - 2*side_margin and at least 16.
C9_WidthForAllMargins ==
    (LayoutDone /\ args.side_margin >= 0 /\ 2 * args.side_margin < 1080) =>
        /\ target_width = 1080 - 2 * args.side_margin
        /\ target_width >= 16

\* C9 amended: for 0 <= side_margin with 1080 - 2*side_margin >= 16 (that is
\* side_margin <= 532) the content width is 1080 - 2*side_margin; for every
\* side margin it is at least 16, and exactly 16 beyond 532.
C9_WidthWithFloor ==
    LayoutDone =>
        /\ (args.side_margin >= 0 /\ 1080 - 2 * args.side_margin >= 16) =>
               target_width = 1080 - 2 * args.side_margin
        /\ target_width >= 16
        /\ args.side_margin > 532 => target_width = 16

\* C9 witness: the layout was computed for side margin 532, the largest one
\* that is not floored.
C9_Witness ==
    /\ LayoutDone
    /\ args.side_margin = 532
    /\ target_width = 16

\* scaled_h is source_h * target_width / source_w rounded to the nearest
\* integer, a tie going to the even integer.
IsRounded(sh, n, d) ==
    /\ 2 * d * sh - 2 * n <= d
    /\ 2 * n - 2 * d * sh <= d
    /\ (2 * d * sh - 2 * n = d \/ 2 * n - 2 * d * sh = d) => sh % 2 = 0

\* top is floor((1920 - sh) / 2)
IsFloorHalf(top, sh) == 2 * top <= 1920 - sh /\ 1920 - sh <= 2 * top + 1

\* C10 as claimed: for every source size with source_w > 0, scaled_h is the
\* rounded quotient and content_top is floor((1920 - scaled_h) / 2).
C10_TopForEverySize ==
    (LayoutDone /\ IsSome(world.srcSize) /\ Val(world.srcSize)[1] > 0) =>
        /\ IsSome(scaled_h)
        /\ IsRounded(Val(scaled_h), Val(world.srcSize)[2] * target_width, Val(world.srcSize)[1])
        /\ IsFloorHalf(video_top_val, Val(scaled_h))

\* C10 amended: for every source size with source_w > 0, scaled_h is the
\* rounded quotient; when scaled_h is positive content_top is
\* floor((1920 - scaled_h) / 2) (881 gives 519), and when it rounds to 0
\* content_top is the fallback 200; that content_top is the one used for the
\* title position, the content rectangle and the logo position.
C10_TopForPositiveHeight ==
    (LayoutDone /\ IsSome(world.srcSize) /\ Val(world.srcSize)[1] > 0) =>
        /\ IsSome(scaled_h)
        /\ IsRounded(Val(scaled_h), Val(world.srcSize)[2] * target_width, Val(world.srcSize)[1])
        /\ Val(scaled_h) > 0 => IsFloorHalf(video_top_val, Val(scaled_h))
        /\ Val(scaled_h) = 0 => video_top_val = 200
        /\ Val(scaled_h) = 881 => video_top_val = 519
        /\ title_pos_y = (IF video_top_val - args.title_margin_top >= 6
                          THEN video_top_val - args.title_margin_top ELSE 6)
        /\ rect # None => rect[2] = (IF video_top_val >= 0 THEN video_top_val ELSE 0)
        /\ \A c \in AllCmds :
              c.logo_xy # <<>> =>
                 c.logo_xy[2] = video_top_val + (IF args.logo_margin >= 0
                                                 THEN args.logo_margin ELSE 0)

\* C10 witness: a source scaled to height 881 was laid out at top 519 and
\* rendered with a frame and a logo.
C10_Witness ==
    /\ IsSome(scaled_h) /\ Val(scaled_h) = 881
    /\ video_top_val = 519
    /\ rect # None
    /\ \E c \in CmdsOf("post") : c.logo_xy # <<>>

\* C11: for every content_top and title gap the title's y is the larger of 6
\* and content_top - gap, hence never above the safe line y = 6 (content_top
\* 100 with gap 200 gives 6, content_top 300 with gap 80 gives 220); the title
\* event of the track and the drawtext fallback both carry exactly that y.
C11_TitleYFloor ==
    LayoutDone =>
        LET d == video_top_val - args.title_margin_top
        IN  /\ title_pos_y >= 6
            /\ title_pos_y >= d
            /\ title_pos_y \in {6, d}
            /\ (video_top_val = 100 /\ args.title_margin_top = 200) => title_pos_y = 6
            /\ (video_top_val = 300 /\ args.title_margin_top = 80) => title_pos_y = 220
            /\ IsSome(ass_title) => Val(ass_title) = << 540, title_pos_y >>
            /\ IsSome(drawtext_filter) => Val(drawtext_filter) = title_pos_y
            /\ (pc \notin {"ass"} /\ IsSome(title_text)) =>
                   (IsSome(ass_title) \/ IsSome(drawtext_filter))

\* C11 witness: content_top 100 with gap 200 was floored to y = 6 and that y
\* was written into the title event of the track.
C11_Witness ==
    /\ video_top_val = 100 /\ args.title_margin_top = 200
    /\ title_pos_y = 6
    /\ ass_title = Some(<< 540, 6 >>)

\* C11 second example reached: content_top 300 with gap 80 put the drawtext
\* title at y = 220.
C11_Example220 ==
    /\ video_top_val = 300 /\ args.title_margin_top = 80
    /\ drawtext_filter = Some(220)

\* The size probe gave nothing usable: no size at all, or a width of 0.
SizeUnusable == world.srcSize = None \/ Val(world.srcSize)[1] = 0

\* C12: when the source size is unavailable or its width is 0, the clip is not
\* failed for it: scaled_h stays unknown, content_top is the fallback 200, no
\* frame and no mask is generated or used by any command, and the post
\* rendition is still invoked (the clip can then only fail in a render stage).
C12_UnusableSizeDegrades ==
    SizeUnusable =>
        /\ (pc \in {"ass", "frame", "mask", "logo", "post", "feed", "reels", "wm"}
              \/ (pc = "done" /\ IsSome(dur) /\ Val(dur) >= 2 * args.min_duration)) =>
               /\ scaled_h = None
               /\ video_top_val = 200
               /\ title_pos_y = (IF 200 - args.title_margin_top >= 6
                                 THEN 200 - args.title_margin_top ELSE 6)
        /\ ~use_frame /\ ~use_mask
        /\ rect = None /\ radius_use = None
        /\ "frame" \notin files /\ "mask" \notin files
        /\ \A c \in AllCmds :
              /\ ~HasInput(c, "frame") /\ ~HasInput(c, "mask")
              /\ \A f \in MaskStages \cup {"overlay_frame"} : ~HasStage(c, f)
        /\ pc \in {"feed", "reels", "wm"} => Invoked("post")
        /\ (pc = "done" /\ IsSome(dur) /\ Val(dur) >= 2 * args.min_duration) =>
              /\ Invoked("post")
              /\ result.error \in {"none", "ffmpeg instagram_post failed", "ffmpeg feed failed",
                                    "ffmpeg reels failed", "ffmpeg watermark failed",
                                    "watermark not found"}

\* C12 witness: a clip whose probed width is 0 was rendered successfully with
\* a corner radius requested and the raster library present.
C12_Witness ==
    /\ world.srcSize = Some(<< 0, 1080 >>)
    /\ args.corner_radius > 0 /\ world.PIL_AVAILABLE
    /\ pc = "done" /\ result.ok
    /\ \E c \in CmdsOf("post") : c.inputs \in { << "video" >>, << "video", "logo" >> }

\* C12 second case reached: the probe reported no size at all.
C12_NoSizeRendered ==
    /\ world.srcSize = None
    /\ args.corner_radius > 0 /\ world.PIL_AVAILABLE
    /\ Invoked("post")

\* The frame and mask steps of the clip are over.
CornerStepsDone ==
    \/ pc \in {"logo", "post", "feed", "reels", "wm"}
    \/ pc = "done" /\ Len(invocations) > 0

\* C13 as claimed: with an effective radius above 0 and the raster library
\* present, exactly one of frame and mask is in use and is an input of every
\* post and reels command.
C13_ExactlyOneCornerAsset ==
    (CornerStepsDone /\ IsSome(radius_use) /\ Val(radius_use) > 0 /\ world.PIL_AVAILABLE) =>
        /\ use_frame \/ use_mask
        /\ ~(use_frame /\ use_mask)
        /\ \A c \in CmdsOf("post") \cup CmdsOf("reels") :
              HasInput(c, "frame") # HasInput(c, "mask")

\* C13 amended: at most one of frame and mask is ever in use, the frame being
\* preferred: a mask bitmap exists only when no frame was produced, each is in
\* use exactly when its bitmap was produced (which needs an effective radius
\* above 0 and the raster library), and every post and reels command takes the
\* one in use, and only that one, as an input; when both generation calls fail
\* neither is in use.  The feed command takes neither.
C13_AtMostOneCornerAsset ==
    /\ ~(use_frame /\ use_mask)
    /\ "mask" \in files => ("frame" \notin files /\ ~use_frame)
    /\ use_frame <=> "frame" \in files
    /\ use_mask <=> "mask" \in files
    /\ (use_frame \/ use_mask) =>
          /\ IsSome(radius_use) /\ Val(radius_use) > 0
          /\ world.PIL_AVAILABLE
    /\ \A c \in CmdsOf("post") \cup CmdsOf("reels") :
          /\ HasInput(c, "frame") <=> use_frame
          /\ HasInput(c, "mask") <=> use_mask
          /\ HasStage(c, "overlay_frame") <=> use_frame
          /\ HasStage(c, "alphamerge") <=> use_mask
    /\ \A c \in CmdsOf("feed") : ~HasInput(c, "frame") /\ ~HasInput(c, "mask")

\* C13 witness: the frame could not be produced, the mask was generated in
\* its place and the post and reels commands took it as an input.
C13_Witness ==
    /\ use_mask /\ ~use_frame
    /\ "mask" \in files /\ "frame" \notin files
    /\ \E c \in CmdsOf("reels") : HasInput(c, "mask")
    /\ \E c \in CmdsOf("post") : HasInput(c, "mask")

\* C13 other cases reached: the frame in use and no mask generated; and both
\* generation calls failed, so that the post command has square corners.
C13_FramePreferred ==
    /\ use_frame /\ "mask" \notin files
    /\ \E c \in CmdsOf("post") : HasInput(c, "frame")

C13_BothFailed ==
    /\ IsSome(radius_use) /\ Val(radius_use) > 0 /\ world.PIL_AVAILABLE
    /\ ~use_frame /\ ~use_mask
    /\ \E c \in CmdsOf("post") : c.inputs = << "video" >>

\* C14: in every post, feed and reels command, whatever its shape, a subtitle
\* filter is the last filter of the last chain and occurs once; the command
\* burns subtitles exactly when the clip has a caption file; the watermark
\* pass has no subtitle filter.
C14_SubtitleStageLast ==
    \A c \in AllCmds :
        LET st == StagesOf(c)
            last == c.graph[Len(c.graph)].f
        IN  /\ \A k \in 1..Len(st) : st[k] \in SubtitleFilters => k = Len(st)
            /\ c.stage \in {"post", "feed", "reels"} =>
                  /\ (st[Len(st)] \in SubtitleFilters) <=> world.has_subs
                  /\ world.has_subs => last[Len(last)] \in SubtitleFilters
                  /\ (st[Len(st)] \in {"ass", "subtitles_ass_fontsdir"}) <=> use_ass
            /\ c.stage = "watermark" => st[Len(st)] \notin SubtitleFilters

\* C14 witness: a clip with captions was rendered as post, feed and reels, the
\* post in the mask shape with a logo and a drawtext title before the
\* subtitle filter.
C14_Witness ==
    /\ Invoked("post") /\ Invoked("feed") /\ Invoked("reels")
    /\ world.has_subs
    /\ \E c \in CmdsOf("post") :
          /\ HasStage(c, "alphamerge") /\ HasStage(c, "overlay_logo")
          /\ HasStage(c, "drawtext")
          /\ StagesOf(c)[Len(StagesOf(c))] = "subtitles_srt_fontsdir"

\* The logo step of the clip is over.
LogoStepDone ==
    \/ pc \in {"post", "feed", "reels", "wm"}
    \/ pc = "done" /\ Len(invocations) > 0

\* C15 as claimed: a configured logo file that is missing yields no logo and
\* the no-logo graph shape.
C15_MissingLogoYieldsNone ==
    (LogoStepDone /\ args.logo_path = "missing") =>
        /\ logo_ready_path = None
        /\ \A c \in AllCmds : ~HasInput(c, "logo") /\ ~HasStage(c, "overlay_logo")

\* C15 amended: logo preparation never fails the clip.  A configured file is
\* opened only if it exists; when it cannot be decoded (or scaling or saving
\* fails) there is no logo and the commands have the no-logo shape; when it is
\* missing, or none is configured, the logo is the generated placeholder (or
\* none, if drawing or saving it fails) and never the file; a produced logo is
\* overlaid in the post and reels commands.  In every case the post rendition
\* is invoked once the duration gate is passed, and no result names the logo.
C15_LogoFailureDegrades ==
    /\ LogoStepDone =>
          /\ logo_img = "file" => args.logo_path = "present"
          /\ args.logo_path \in {"missing", "none"} => logo_img \in {"dummy", "none"}
          /\ (logo_ready_path = None) <=> (logo_img = "none")
          /\ IsSome(logo_ready_path) <=> "logo" \in files
          /\ IsSome(logo_ready_path) =>
                (args.logo_size_ratio_pos /\ world.PIL_AVAILABLE)
          /\ \A c \in CmdsOf("post") \cup CmdsOf("reels") :
                /\ HasInput(c, "logo") <=> IsSome(logo_ready_path)
                /\ HasStage(c, "overlay_logo") <=> IsSome(logo_ready_path)
    /\ (pc = "done" /\ IsSome(dur) /\ Val(dur) >= 2 * args.min_duration) =>
          /\ Invoked("post")
          /\ result.error \in {"none", "ffmpeg instagram_post failed", "ffmpeg feed failed",
                                "ffmpeg reels failed", "ffmpeg watermark failed",
                                "watermark not found"}

\* C15 witness: the configured logo file could not be decoded, the post
\* command was built without a logo and the clip succeeded.
C15_Witness ==
    /\ args.logo_path = "present" /\ args.logo_size_ratio_pos /\ world.PIL_AVAILABLE
    /\ logo_img = "none" /\ logo_ready_path = None
    /\ pc = "done" /\ result.ok
    /\ \E c \in CmdsOf("post") : ~HasInput(c, "logo")

\* C15 other case reached: the configured file is missing and the placeholder
\* logo is overlaid in the post command.
C15_MissingGivesPlaceholder ==
    /\ args.logo_path = "missing"
    /\ logo_img = "dummy"
    /\ \E c \in CmdsOf("post") : HasStage(c, "overlay_logo")

\* C16 as claimed: the sets of paths written for two distinct clips of one
\* batch are disjoint, whatever the slugs of the two records.
C16_DisjointPaths ==
    batch.status \in {"pool", "finished"} =>
        \A i, j \in 1..Len(batch.queue) :
            i # j => batch.wrote[i] \cap batch.wrote[j] = {}

\* C19 as claimed: when a tool the entry point requires cannot be resolved,
\* the run never does anything: no directory, no search, no download, no
\* worker, no engine call, for each of the four entry points.
C19_AbortBeforeAnyWork ==
    (drv.status # "off" /\ \E t \in RequiredTools(drv.entry) : ~drv[t]) =>
        /\ drv.effects = {}
        /\ batch.status = "idle"
        /\ drv.status \in {"starting", "exit_error"}

\* Number of entries of the outcome list that belong to clip i.
OutcomesFor(i) ==
    Cardinality({ k \in 1..Len(batch.outcomes) : batch.outcomes[k][1] = i })

\* C20: whatever happens to one clip, the pool goes on: while the batch runs
\* some worker or the collecting loop can take a step; no clip ever has more
\* than one outcome; when the driver has finished, every queued clip has run
\* to its end and has exactly one outcome (OK, FAILED or exception) matching
\* what its worker did, and the summary's success + failed is the number of
\* clips whose worker returned a result, success being the number of OKs.
C20_BatchSurvivesFailures ==
    /\ batch.status = "pool" => ENABLED (PoolStart \/ PoolStep \/ Collect \/ Summarize)
    /\ batch.status \in {"pool", "finished"} =>
          \A i \in 1..Len(batch.queue) :
              /\ OutcomesFor(i) <= 1
              /\ OutcomesFor(i) = 1 <=> i \in batch.collected
              /\ i \in batch.collected => batch.st[i] \in {"ok", "failed", "raised"}
    /\ batch.status = "finished" =>
          LET n == Len(batch.queue)
              returned == { i \in 1..n : batch.st[i] \in {"ok", "failed"} }
              oks == { i \in 1..n : batch.st[i] = "ok" }
              sum == Val(batch.summary)
          IN  /\ Len(batch.outcomes) = n
              /\ \A i \in 1..n : OutcomesFor(i) = 1
              /\ \A k \in 1..n :
                    batch.outcomes[k][2] =
                        (CASE batch.st[batch.outcomes[k][1]] = "ok" -> "OK"
                           [] batch.st[batch.outcomes[k][1]] = "failed" -> "FAILED"
                           [] batch.st[batch.outcomes[k][1]] = "raised" -> "exception")
              /\ sum.success = Cardinality(oks)
              /\ drv.entry # "download_tom_hardy" =>
                    sum.success + sum.failed = Cardinality(returned)
              /\ drv.entry = "download_tom_hardy" => sum.queued = n

\* C20 witness: a batch of two clips has finished in which the worker of the
\* first clip raised an exception and the second clip succeeded.
C20_Witness ==
    /\ batch.status = "finished"
    /\ Len(batch.queue) = 2
    /\ batch.st = << "raised", "ok" >>
    /\ batch.summary = Some([success |-> 1, failed |-> 0])

C17_Completed ==
    /\ dl.final = Some(3)
    /\ dl.part = None

\* C18: no step of a clip removes a file, except that the driver's duration
\* re-check after the download removes the raw download exactly when it fails
\* (duration unavailable or below the minimum); in particular a failed probe
\* inside edit_clip and a failed render stage leave the caption files, the
\* bitmaps and the earlier renditions in place.
C18_FailureKeepsFiles ==
    [][ /\ files \ files' \subseteq {"mp4"}
        /\ ("mp4" \in files /\ "mp4" \notin files') <=>
              (pc = "worker_probe" /\ pc' = "done")
        /\ (pc = "worker_probe" /\ pc' = "done") <=>
              (pc = "worker_probe"
               /\ result'.error \in {"ffprobe missing or failed", "duration_too_short"})
        /\ (pc = "worker_probe" /\ result'.error = "duration_too_short") =>
              world.fileDur < 2 * args.min_duration
        /\ (pc = "worker_probe" /\ pc' = "start") =>
              world.fileDur >= 2 * args.min_duration
        /\ (pc' = "done" /\ ~result'.ok /\ pc # "worker_probe") =>
              files \subseteq files'
      ]_vars

\* C18 witness: the reels stage failed after post and feed had succeeded; the
\* caption files, the frame bitmap, the raw video and both renditions exist.
C18_Witness ==
    /\ pc = "done" /\ result.error = "ffmpeg reels failed"
    /\ {"mp4", "srt", "ass", "frame", "post", "feed"} \subseteq files

\* C18 other case reached: the re-check after the download failed and only
\* the sidecar is left.
C18_DownloadRemoved ==
    /\ mode = "main" /\ pc = "done"
    /\ result.error = "ffprobe missing or failed"
    /\ files = {"meta"} /\ invocations = <<>>

\* Results that only the watermark pass can produce.
WatermarkErrors == {"watermark not found", "ffmpeg watermark failed"}

\* C21: every watermark invocation was made with reels requested and a
\* watermark file configured and present, after a reels invocation that
\* succeeded; it reads the reels output and the watermark only and writes
\* reels_wm, never post, feed or reels.  Without reels there is no watermark
\* invocation and no watermark failure, whatever watermark is configured.
C21_WatermarkOnlyAfterReels ==
    /\ \A i \in 1..Len(invocations) :
          invocations[i].cmd.stage = "watermark" =>
             /\ args.produce_reels /\ args.watermark = "present"
             /\ i > 1
             /\ invocations[i - 1].cmd.stage = "reels" /\ invocations[i - 1].ok
             /\ invocations[i].cmd.inputs = << "reels", "watermark" >>
             /\ invocations[i].cmd.out = "reels_wm"
             /\ \A j \in 1..Len(invocations) :
                   j # i => invocations[j].cmd.out # "reels_wm"
    /\ "reels_wm" \in files => Invoked("watermark")
    /\ pc = "wm" => (args.produce_reels /\ args.watermark = "present" /\ "reels" \in files)
    /\ ~args.produce_reels =>
          /\ ~Invoked("watermark") /\ ~Invoked("reels") /\ pc # "wm"
          /\ result.error \notin WatermarkErrors
          /\ "reels_wm" \notin files

\* C21 witness: the watermark pass ran on a successful reels rendition.
C21_Witness ==
    /\ pc = "done" /\ result.ok
    /\ Invoked("watermark") /\ "reels_wm" \in files
    /\ {"post", "feed", "reels"} \subseteq files

\* C21 other case reached: a watermark is configured, reels is not requested,
\* and the clip succeeds with the post and feed renditions only.
C21_WatermarkIgnored ==
    /\ pc = "done" /\ result.ok
    /\ ~args.produce_reels /\ args.watermark = "missing" /\ args.produce_feed
    /\ Len(invocations) = 2

\* The command with its stage name and output path replaced.
Retargeted(c, stage, out) == [c EXCEPT !.stage = stage, !.out = out]

\* C22: whenever a clip has a post and a reels command, the reels command is
\* the post command with only the output path (and the stage it belongs to)
\* changed: same inputs in the same order, same graph, same parameters
\* (scale width, crop, logo coordinates), same stream maps, same encoder
\* arguments.
C22_ReelsEqualsPost ==
    \A i, j \in 1..Len(invocations) :
        (invocations[i].cmd.stage = "post" /\ invocations[j].cmd.stage = "reels") =>
            /\ Retargeted(invocations[j].cmd, "post", "post") = invocations[i].cmd
            /\ invocations[j].cmd.out # invocations[i].cmd.out
            /\ invocations[j].cmd.venc = invocations[i].cmd.venc
            /\ invocations[j].cmd.venc =
                  (IF args.video_encoder = "h264_nvenc"
                   THEN << "-c:v", "h264_nvenc", "-preset", "nvenc_preset", "-tune", "hq",
                           "-rc", "vbr", "-cq", "nvenc_cq", "-b:v", "0",
                           "-profile:v", "high" >>
                        \o (IF args.nvenc_gpu = None THEN <<>>
                                                     ELSE << "-gpu", "nvenc_gpu" >>)
                   ELSE << "-c:v", "libx264", "-preset", "veryfast", "-crf", "23",
                           "-profile:v", "high" >>)

\* C22 witness: a masked clip with a logo, encoded with NVENC on a chosen
\* GPU, whose post and reels renditions were both rendered.
C22_Witness ==
    /\ pc = "done" /\ result.ok
    /\ use_mask /\ IsSome(logo_ready_path) /\ use_ass
    /\ args.video_encoder = "h264_nvenc" /\ IsSome(args.nvenc_gpu)
    /\ Invoked("post") /\ Invoked("reels")

\* C22 other case reached: the plain single-chain post and reels commands.
C22_PlainPair ==
    /\ pc = "done" /\ result.ok /\ Invoked("reels")
    /\ \A c \in CmdsOf("post") \cup CmdsOf("reels") : c.form = "vf"

\* What one character of the input becomes.
EscapedChar(c) ==
    CASE c = "\\" -> << "\\", "\\" >>
      [] c = "'" -> << "\\", "'" >>
      [] c = ":" -> << "\\", ":" >>
      [] c = "%" -> << "%", "%" >>
      [] OTHER -> << c >>

RECURSIVE EscapedEach(_)
EscapedEach(s) == IF s = <<>> THEN <<>> ELSE EscapedChar(Head(s)) \o EscapedEach(Tail(s))

\* C23: the result of ffmpeg_escape_text is the input with every character
\* replaced, once and in order, by its escape (backslash, quote, colon and
\* percent) or by itself (every other character); It's 50%: done becomes
\* It\'s 50%%\: done.
C23_EscapesEachCharOnce ==
    (txt.fn = "escape" /\ txt.pc = "done") =>
        /\ txt.output = EscapedEach(txt.input)
        /\ txt.input = ExampleTitle =>
              txt.output = << "I", "t", "\\", "'", "s", " ", "5", "0", "%", "%",
                              "\\", ":", " ", "d", "o", "n", "e" >>

\* C23 witness: a title holding a quote right after a backslash was escaped.
C23_Witness ==
    /\ txt.fn = "escape" /\ txt.pc = "done"
    /\ txt.input = << "\\", "'", "%" >>
    /\ txt.output = << "\\", "\\", "\\", "'", "%", "%" >>

\* C23 other case reached: the example title was escaped.
C23_ExampleEscaped ==
    /\ txt.fn = "escape" /\ txt.pc = "done" /\ txt.input = ExampleTitle

\* Commands that overlay the logo.
LogoCmds == { c \in AllCmds : HasStage(c, "overlay_logo") }

\* C24 as claimed: the logo is overlaid at (content_left + logo_margin,
\* content_top + logo_margin) for every logo_margin.
C24_LogoAtMarginForEveryMargin ==
    \A c \in LogoCmds :
        c.logo_xy = << (1080 - target_width) \div 2 + args.logo_margin,
                       video_top_val + args.logo_margin >>

\* C24 amended: the logo is overlaid at (content_left + m, content_top + m)
\* with m = max(0, logo_margin): a negative margin counts as 0, so the logo
\* never starts left of or above the content rectangle's top-left corner.
\* content_left is (1080 - content_width) // 2 and content_top the resolved
\* top (the fallback 200 when the height is unknown); only post and reels
\* commands overlay a logo.
C24_LogoAtClampedMargin ==
    \A c \in AllCmds :
        IF HasStage(c, "overlay_logo")
        THEN LET m == IF args.logo_margin >= 0 THEN args.logo_margin ELSE 0
                 content_width ==
                     IF 1080 - 2 * (IF args.side_margin >= 0 THEN args.side_margin ELSE 0) >= 16
                     THEN 1080 - 2 * (IF args.side_margin >= 0 THEN args.side_margin ELSE 0)
                     ELSE 16
             IN  /\ c.stage \in {"post", "reels"}
                 /\ c.logo_xy = << (1080 - content_width) \div 2 + m, video_top_val + m >>
                 /\ (scaled_h = None \/ Val(scaled_h) = 0) => c.logo_xy[2] = 200 + m
        ELSE c.logo_xy = <<>>

\* C24 witness: a logo overlaid with margin 16 on a content rectangle that
\* does not start at the canvas's left edge.
C24_Witness ==
    /\ args.logo_margin = 16 /\ args.side_margin = 20
    /\ \E c \in LogoCmds : c.logo_xy[1] = 36 /\ c.logo_xy[2] = video_top_val + 16
    /\ pc = "done" /\ result.ok

\* C24 other case reached: a negative margin, the logo sits on the corner.
C24_NegativeMargin ==
    /\ args.logo_margin < 0
    /\ \E c \in LogoCmds : c.logo_xy = << (1080 - target_width) \div 2, video_top_val >>

\* C25: the sanitised slug is non-empty, made of alphanumeric characters and
\* '-', '_', '.' only (so without a path separator), neither begins nor ends
\* with '-' or '_', and is neither '.' nor '..'.
C25_SafeToken ==
    (txt.fn = "slug" /\ txt.pc = "done") =>
        /\ txt.output # <<>>
        /\ \A k \in 1..Len(txt.output) :
              txt.output[k] \in {"a", "b", "c", "l", "i", "p", "0", "-", "_", "."}
        /\ txt.output[1] \notin {"-", "_"}
        /\ txt.output[Len(txt.output)] \notin {"-", "_"}
        /\ txt.output # << "." >>
        /\ txt.output # << ".", "." >>

\* C25 case reached: the slug '..' is returned unchanged.
C25_DotDotKept ==
    /\ txt.fn = "slug" /\ txt.pc = "done"
    /\ txt.input = << ".", "." >> /\ txt.output = << ".", "." >>

\* C25 case reached: a slug with nothing to keep gets the generated name.
C25_FallbackName ==
    /\ txt.fn = "slug" /\ txt.pc = "done"
    /\ txt.input = << "/", "!", "-" >> /\ txt.output = FallbackName

\* C26: every feed command reads the source video only and has one chain, the
\* 1080x1080 scale/pad/crop followed by the clip's text suffix (drawtext
\* and/or the subtitle filter) and nothing else: no frame, mask or logo input,
\* no overlay or mask stage, no logo coordinates, whatever was produced for
\* the clip's vertical renditions.
C26_FeedPlainChain ==
    \A c \in CmdsOf("feed") :
        /\ c.inputs = << "video" >>
        /\ c.form = "vf"
        /\ Len(c.graph) = 1
        /\ c.graph[1].f = << "scale", "pad", "crop" >> \o text_suffix
        /\ c.scale_w = 1080 /\ c.crop = << 1080, 1080 >>
        /\ c.logo_xy = <<>> /\ c.maps = <<>>
        /\ \A k \in 1..Len(text_suffix) :
              text_suffix[k] \in {"drawtext"} \cup SubtitleFilters
        /\ \A f \in RoundingAndLogoStages \cup MaskStages \cup {"overlay_logo", "overlay_frame"} :
              ~HasStage(c, f)

\* C26 witness: a clip with a frame and a logo file in its post command, whose
\* feed command was then rendered.
C26_Witness ==
    /\ pc = "done" /\ result.ok
    /\ use_frame /\ IsSome(logo_ready_path)
    /\ \E p \in CmdsOf("post") : HasInput(p, "frame") /\ HasInput(p, "logo")
    /\ \E c \in CmdsOf("feed") : Len(c.graph[1].f) > 3

\* C26 other case reached: a masked clip and its feed command.
C26_MaskedClipFeed ==
    /\ use_mask /\ CmdsOf("feed") # {}
    /\ \E p \in CmdsOf("post") : HasInput(p, "mask")

\* The keys of a payload, in insertion order.
KeysOf(payload) == [i \in 1..Len(payload) |-> payload[i].key]

\* C27: parsing yields exactly one cue per entry of the payload, carrying
\* that entry's start time; when every key is a digit string the cues are in
\* ascending order of the numeric key (cue "2" before cue "10"); the caption
\* file numbers the cues 1..n in the parsed order; one entry gives one cue.
C27_OneCuePerEntryInOrder ==
    (txt.fn = "subs" /\ txt.pc \in {"parsed", "done"}) =>
        /\ Len(txt.output) = Len(txt.input)
        /\ \A i \in 1..Len(txt.input) :
              \E k \in 1..Len(txt.output) :
                 /\ txt.output[k].text = txt.input[i].key
                 /\ txt.output[k].start = txt.input[i].start
                 /\ \A m \in 1..Len(txt.output) :
                       txt.output[m].text = txt.input[i].key => m = k
        /\ (\A i \in 1..Len(txt.input) :
               txt.input[i].key \in { << "1" >>, << "2" >>, << "1", "0" >>, << "0", "1" >> }) =>
              \A a, b \in 1..Len(txt.output) :
                 /\ (txt.output[a].text = << "2" >> /\ txt.output[b].text = << "1", "0" >>)
                       => a < b
                 /\ (txt.output[a].text \in { << "1" >>, << "0", "1" >> }
                       /\ txt.output[b].text \in { << "2" >>, << "1", "0" >> }) => a < b
        /\ Len(txt.input) = 1 => Len(txt.output) = 1
        /\ txt.pc = "done" =>
              /\ Len(txt.srt) = Len(txt.output)
              /\ \A i \in 1..Len(txt.srt) :
                    /\ txt.srt[i].index = i
                    /\ txt.srt[i].text = txt.output[i].text
                    /\ txt.srt[i].start_ms = 1000 * txt.output[i].start

\* C27 witness: the payload lists cue "10" before cue "2" and the caption
\* file has cue "2" as number 1 and cue "10" as number 2.
C27_Witness ==
    /\ txt.fn = "subs" /\ txt.pc = "done"
    /\ KeysOf(txt.input) = << << "1", "0" >>, << "2" >> >>
    /\ txt.srt[1].text = << "2" >> /\ txt.srt[1].index = 1
    /\ txt.srt[2].text = << "1", "0" >> /\ txt.srt[2].index = 2

\* C27 other case reached: a payload with one entry gave one numbered cue.
C27_SingleCue ==
    /\ txt.fn = "subs" /\ txt.pc = "done"
    /\ Len(txt.input) = 1 /\ Len(txt.srt) = 1 /\ txt.srt[1].index = 1

\* C27 other case reached: digit and non-digit keys mixed, the cues keep the
\* payload's order.
C27_MixedKeysKeepOrder ==
    /\ txt.fn = "subs" /\ txt.pc = "parsed"
    /\ KeysOf(txt.input) = << << "x" >>, << "2" >>, << "1" >> >>
    /\ [i \in 1..3 |-> txt.output[i].text] = KeysOf(txt.input)

\* Number of drawtext stages of a command.
DrawtextCount(c) == Cardinality({ k \in 1..Len(StagesOf(c)) : StagesOf(c)[k] = "drawtext" })

\* The command renders the generated track (which holds the title event).
UsesTrack(c) == HasStage(c, "ass") \/ HasStage(c, "subtitles_ass_fontsdir")

\* C28: with the title enabled and a non-empty title text, every post and
\* reels command renders the title exactly once: through the track's title
\* event when the track was built (then there is no drawtext stage), and
\* otherwise through exactly one drawtext stage; both carry the font size
\* "title_size, else subtitle_size" and the computed title_y.  With the title
\* disabled (or blank) no command holds a drawtext stage and the track has no
\* title event.
C28_TitleRenderedOnce ==
    \A c \in CmdsOf("post") \cup CmdsOf("reels") :
        LET size == IF args.title_size # 0 THEN args.title_size ELSE args.subtitle_size
            titled == args.title_enable /\ world.title_src = "text"
            inTrack == UsesTrack(c) /\ IsSome(ass_title)
        IN  /\ titled =>
                /\ (IF inTrack THEN 1 ELSE 0) + DrawtextCount(c) = 1
                /\ inTrack <=> use_ass
                /\ inTrack =>
                      /\ tsize.track = Some(size)
                      /\ Val(ass_title) = << 540, title_pos_y >>
                /\ ~inTrack =>
                      /\ tsize.drawtext = Some(size)
                      /\ drawtext_filter = Some(title_pos_y)
            /\ ~titled =>
                /\ DrawtextCount(c) = 0
                /\ ass_title = None /\ drawtext_filter = None
                /\ tsize.track = None /\ tsize.drawtext = None

\* C28 witness: the track could not be built for a clip with captions; the
\* title, given no size of its own, is drawn once at the subtitle size in the
\* post and the reels command.
C28_Witness ==
    /\ pc = "done" /\ result.ok
    /\ args.title_enable /\ IsSome(title_text) /\ args.title_size = 0
    /\ IsSome(srt_path) /\ ~use_ass
    /\ tsize.drawtext = Some(10)
    /\ \E c \in CmdsOf("reels") : DrawtextCount(c) = 1
    /\ \E c \in CmdsOf("post") : DrawtextCount(c) = 1

\* C28 other case reached: the title is an event of the track.
C28_TitleInTrack ==
    /\ pc = "done" /\ result.ok /\ use_ass
    /\ IsSome(ass_title) /\ tsize.track = Some(44)
    /\ \E c \in CmdsOf("post") : UsesTrack(c) /\ DrawtextCount(c) = 0

\* C28 other case reached: the title is disabled, the track has captions only.
C28_TitleDisabled ==
    /\ pc = "done" /\ result.ok /\ ~args.title_enable /\ use_ass
    /\ ass_title = None

\* A started worker is never abandoned: while the pool runs the queue is
\* fixed, a clip that is being worked on stays with its worker until the
\* worker finishes it, a queued clip waits or is started, and a finished clip
\* keeps its outcome.
NoAbandon ==
    batch.status = "pool" =>
        /\ batch'.queue = batch.queue
        /\ \A i \in 1..Len(batch.queue) :
              /\ batch.st[i] \in WorkerSteps => batch'.st[i] \in WorkerSteps \cup Finished
              /\ batch.st[i] = "queued" => batch'.st[i] \in {"queued"} \cup WorkerSteps
              /\ batch.st[i] \in Finished => batch'.st[i] = batch.st[i]

\* C29: when every external call returns, a batch that was queued ends with
\* its summary, every clip of it finished and collected; and no step ever
\* takes a clip away from the worker that started it.
C29_BatchTerminates ==
    /\ [][NoAbandon]_vars
    /\ (batch.status = "pool") ~>
          (/\ batch.status = "finished"
           /\ batch.summary # None
           /\ drv.status = "exit_ok"
           /\ \A i \in 1..Len(batch.queue) :
                 batch.st[i] \in {"ok", "failed", "raised"} /\ i \in batch.collected)

\* C29 witness: a batch of two clips on one pool thread has ended with its
\* summary, one clip having raised in its worker.
C29_Witness ==
    /\ batch.status = "finished" /\ batch.summary # None
    /\ batch.max_concurrent = 1 /\ Len(batch.queue) = 2
    /\ batch.st[1] = "raised" /\ batch.st[2] = "ok"

C30_ZeroLimitOneQueued ==
    /\ drv.entry = "main" /\ batch.max_total = 0
    /\ batch.status = "pool" /\ Len(batch.queue) = 1

\* C30 case reached: download_tom_hardy.py with max_total 0 queues nothing
\* (the limit is tested before each hit) and returns.
C30_ZeroLimitNothingQueued ==
    /\ drv.entry = "download_tom_hardy" /\ batch.max_total = 0
    /\ drv.status = "exit_ok" /\ "search" \in drv.effects

====
